---- MODULE Spec2Model ----
(***************************************************************************)
(* Model of credis: the blocking client (credis.Client, src/credis/        *)
(* __init__.py) and the suspending client (credis.asyncio.AsyncClient,     *)
(* src/credis/asyncio.py) in front of a sentinel-monitored store.          *)
(*                                                                         *)
(* Text is a sequence of one-character strings, a byte string a sequence   *)
(* of byte values.  The monitor, the role-bound store handles and the      *)
(* codec (dill) are collaborators: every call into the monitor or the      *)
(* store may succeed or raise.  A handle is identified by the number of    *)
(* the connect attempt that created it; 0 is None.                         *)
(***************************************************************************)
EXTENDS Integers, Sequences, FiniteSets, TLC

(***************************************************************************)
(* Bounds                                                                  *)
(***************************************************************************)
\* coroutines that use one suspending client concurrently
NTasks == 2
\* connect attempts (Sentinel objects created) in one behaviour
MaxConnects == 2
\* longest key list handed to a multi-key operation
MaxKeys == 2
\* keys the store holds at most, in the run over every operation and in
\* the runs over the data types
MaxSeqStore == 1
MaxStore == 2
\* cells a list, a set, a hash or a sorted set holds at most
MaxCells == 2
\* highest score of a member of a sorted set
MaxScore == 3

Tasks == 1..NTasks

(***************************************************************************)
(* Text, byte strings and Python's str()                                   *)
(***************************************************************************)
\* the app_prefix given to the constructor, as text
AppPrefix == <<"p">>

\* chr() of the ASCII bytes in use; the byte 255 (0xff) is no valid UTF-8
ByteChar == (97 :> "a") @@ (58 :> ":")

\* bytes.decode("utf-8") succeeds on ASCII; a lone byte above 127 makes it
\* raise UnicodeDecodeError
Utf8Ok(b) == \A i \in 1..Len(b) : b[i] < 128
Utf8Decode(b) == [i \in 1..Len(b) |-> ByteChar[b[i]]]

\* the body of repr(bytes): printable ASCII as it is, other bytes as \xhh
RECURSIVE BytesRepr(_)
BytesRepr(b) ==
  IF b = <<>> THEN <<>>
  ELSE (IF Head(b) < 128 THEN <<ByteChar[Head(b)]>>
        ELSE <<"\\", "x", "f", "f">>) \o BytesRepr(Tail(b))

\* the decimal digits of a natural number
Digit(d) == CASE d = 0 -> "0" [] d = 1 -> "1" [] d = 2 -> "2" [] d = 3 -> "3"
              [] d = 4 -> "4" [] d = 5 -> "5" [] d = 6 -> "6" [] d = 7 -> "7"
              [] d = 8 -> "8" [] d = 9 -> "9"
RECURSIVE Decimal(_)
Decimal(n) == IF n < 10 THEN <<Digit(n)>>
              ELSE Decimal(n \div 10) \o <<Digit(n % 10)>>

\* raw keys as a caller passes them: text, a byte string, a memory view
\* over a byte string, or another object (an integer)
StrKey(s)   == [t |-> "str",        s |-> s,    b |-> <<>>, n |-> 0]
BytesKey(b) == [t |-> "bytes",      s |-> <<>>, b |-> b,    n |-> 0]
ViewKey(b)  == [t |-> "memoryview", s |-> <<>>, b |-> b,    n |-> 0]
IntKey(n)   == [t |-> "int",        s |-> <<>>, b |-> <<>>, n |-> n]

\* Python's str(name).  str() of a byte string is its repr, b'...'; str() of
\* a memory view is "<memory at 0x...>", which never is the decoded text.
PyStr(name) ==
  CASE name.t = "str"        -> name.s
    [] name.t = "bytes"      -> <<"b", "'">> \o BytesRepr(name.b) \o <<"'">>
    [] name.t = "memoryview" -> <<"<", "memory at 0x", ">">>
    [] name.t = "int"        -> Decimal(name.n)

(***************************************************************************)
(* KeyNamespacer                                                           *)
(***************************************************************************)
\* the result of a computation that may raise: a value, or the exception
Ok(x)    == [ok |-> TRUE,  v |-> x,    err |-> "none"]
Raise(e) == [ok |-> FALSE, v |-> <<>>, err |-> e]

\* Client.make_key and AsyncClient.make_key (the same text in both files)
\* of a client constructed with app_prefix
make_key_of(app_prefix, name) ==
  IF name.t \in {"bytes", "memoryview"}
  THEN IF Utf8Ok(name.b)
       THEN Ok(app_prefix \o <<":">> \o Utf8Decode(name.b))
       ELSE Raise("UnicodeDecodeError")
  ELSE Ok(app_prefix \o <<":">> \o PyStr(name))
\* make_key of the client that is followed
make_key(name) == make_key_of(AppPrefix, name)

\* make_key(str(name)), the form most blocking operations use
make_key_str(name) == make_key(StrKey(PyStr(name)))

\* f"{app_prefix}:{str(pattern)}", the form Client.keys uses
fstr_key(name) == Ok(AppPrefix \o <<":">> \o PyStr(name))

\* a name handed to the store untouched (delete_raw): the store addresses
\* the key by the bytes of the name, seen here as their text
raw_key(name) ==
  IF name.t \in {"bytes", "memoryview"}
  THEN Ok(IF Utf8Ok(name.b) THEN Utf8Decode(name.b) ELSE BytesRepr(name.b))
  ELSE Ok(PyStr(name))

(***************************************************************************)
(* ValueCodec (dill)                                                       *)
(***************************************************************************)
\* pickle.dumps(v): a byte string that carries v
dumps(v) == <<"pickle", v>>
\* pickle.loads(b): the value, or UnpicklingError on bytes that are no pickle
loads(b) == IF b[1] = "pickle" THEN Ok(b[2]) ELSE Raise("UnpicklingError")

(***************************************************************************)
(* RoleRouter: the handle every method checks and calls, and the way every *)
(* method builds the keys it sends                                         *)
(***************************************************************************)
ClientMasterOps ==
  {"write_pipeline", "ping", "set", "incr", "decr", "append", "setrange",
   "mset", "delete", "delete_raw", "lpush", "rpush", "lpop", "rpop", "lset",
   "lrem", "ltrim", "hset", "hdel", "hincrby", "hincrbyfloat", "hsetnx",
   "flushdb", "flushall", "sadd", "srem", "smove", "spop", "zadd", "zrem",
   "zremrangebyrank", "zincrby", "zpopmin", "zpopmax", "zremrangebyscore",
   "expire", "expireat", "persist", "rename"}

ClientSlaveOps ==
  {"read_pipeline", "get", "getrange", "strlen", "mget", "lrange", "llen",
   "lindex", "exists", "keys", "hget", "hgetall", "hkeys", "hvals", "hlen",
   "hexists", "hmget", "hstrlen", "hrandfield", "hscan", "hscan_iter", "scan",
   "scan_iter", "smembers", "sismember", "scard", "sdiff", "sinter", "sunion",
   "srandmember", "sscan", "sscan_iter", "zrange", "zrevrange",
   "zrangebyscore", "zrevrangebyscore", "zcard", "zcount", "zrank",
   "zrevrank", "zscan", "zscan_iter", "zscore", "zrangebylex", "ttl", "pttl",
   "type"}

ClientMakeKeyOps ==
  {"set"}

ClientStrKeyOps ==
  {"get", "incr", "decr", "append", "getrange", "setrange", "strlen", "mget",
   "mset", "delete", "lpush", "rpush", "lpop", "rpop", "lrange", "llen",
   "lindex", "lset", "lrem", "ltrim", "exists", "hset", "hget", "hgetall",
   "hdel", "hkeys", "hvals", "hlen", "hexists", "hincrby", "hincrbyfloat",
   "hmget", "hsetnx", "hstrlen", "hrandfield", "hscan", "hscan_iter", "sadd",
   "srem", "smembers", "sismember", "smove", "scard", "sdiff", "sinter",
   "sunion", "spop", "srandmember", "sscan", "sscan_iter", "zadd", "zrem",
   "zrange", "zrevrange", "zrangebyscore", "zrevrangebyscore", "zcard",
   "zcount", "zrank", "zrevrank", "zscan", "zscan_iter", "zremrangebyrank",
   "zscore", "zincrby", "zpopmin", "zpopmax", "zremrangebyscore",
   "zrangebylex", "expire", "expireat", "ttl", "pttl", "persist", "rename",
   "type"}

ClientFStrOps ==
  {"keys"}

ClientRawKeyOps ==
  {"delete_raw"}

ClientNoKeyOps ==
  {"write_pipeline", "read_pipeline", "ping", "flushdb", "flushall", "scan",
   "scan_iter"}

AsyncMasterOps ==
  {"write_pipeline_ctx", "write_pipeline", "transaction", "ping", "set",
   "incr", "decr", "append", "setrange", "mset", "delete", "delete_raw",
   "lpush", "rpush", "lpop", "rpop", "lset", "lrem", "ltrim", "hset", "hdel",
   "hincrby", "hincrbyfloat", "hsetnx", "flushdb", "flushall", "sadd", "srem",
   "smove", "spop", "zadd", "zrem", "zremrangebyrank", "zincrby", "zpopmin",
   "zpopmax", "zremrangebyscore", "expire", "expireat", "persist", "rename"}

AsyncSlaveOps ==
  {"read_pipeline_ctx", "read_pipeline", "get", "getrange", "strlen", "mget",
   "lrange", "llen", "lindex", "exists", "keys", "hget", "hgetall", "hkeys",
   "hvals", "hlen", "hexists", "hmget", "hstrlen", "hrandfield", "hscan",
   "hscan_iter", "scan", "scan_iter", "smembers", "sismember", "scard",
   "sdiff", "sinter", "sunion", "srandmember", "sscan", "sscan_iter",
   "zrange", "zrevrange", "zrangebyscore", "zrevrangebyscore", "zcard",
   "zcount", "zrank", "zrevrank", "zscan", "zscan_iter", "zscore",
   "zrangebylex", "ttl", "pttl", "type"}

AsyncMakeKeyOps ==
  {"set", "get", "incr", "decr", "append", "getrange", "setrange", "strlen",
   "mget", "mset", "delete", "lpush", "rpush", "lpop", "rpop", "lrange",
   "llen", "lindex", "lset", "lrem", "ltrim", "exists", "keys", "hset",
   "hget", "hgetall", "hdel", "hkeys", "hvals", "hlen", "hexists", "hincrby",
   "hincrbyfloat", "hmget", "hsetnx", "hstrlen", "hrandfield", "hscan",
   "hscan_iter", "sadd", "srem", "smembers", "sismember", "smove", "scard",
   "sdiff", "sinter", "sunion", "spop", "srandmember", "sscan", "sscan_iter",
   "zadd", "zrem", "zrange", "zrevrange", "zrangebyscore", "zrevrangebyscore",
   "zcard", "zcount", "zrank", "zrevrank", "zscan", "zscan_iter",
   "zremrangebyrank", "zscore", "zincrby", "zpopmin", "zpopmax",
   "zremrangebyscore", "zrangebylex", "expire", "expireat", "ttl", "pttl",
   "persist", "rename", "type"}

AsyncRawKeyOps ==
  {"delete_raw"}

AsyncNoKeyOps ==
  {"write_pipeline_ctx", "write_pipeline", "read_pipeline_ctx",
   "read_pipeline", "transaction", "ping", "flushdb", "flushall", "scan",
   "scan_iter"}

\* the methods of Client that call pickle.dumps on an argument
ClientEncodeOps ==
  {"set", "mset", "lpush", "rpush", "lset", "lrem", "hset", "hsetnx",
   "sadd", "srem", "sismember", "smove", "zadd", "zrem", "zrank",
   "zrevrank", "zscore", "zincrby"}

\* the methods of Client that call pickle.loads on the reply
ClientDecodeOps ==
  {"get", "mget", "lpop", "rpop", "lrange", "lindex", "hget", "hgetall",
   "hvals", "hmget", "hrandfield", "hscan", "hscan_iter", "smembers",
   "sdiff", "sinter", "sunion", "spop", "srandmember", "sscan",
   "sscan_iter", "zrange", "zrevrange", "zrangebyscore", "zrevrangebyscore",
   "zscan", "zscan_iter", "zpopmin", "zpopmax"}

\* the methods of Client that are generators (their body yields)
ClientGeneratorOps ==
  {"hscan_iter", "sscan_iter", "zscan_iter"}

\* the methods of AsyncClient that call pickle.dumps on an argument
AsyncEncodeOps ==
  {"set", "mset", "lpush", "rpush", "lset", "lrem", "zadd", "zrem", "zrank",
   "zrevrank", "zscore", "zincrby"}

\* the methods of AsyncClient that call pickle.loads on the reply
AsyncDecodeOps ==
  {"get", "mget", "lpop", "rpop", "lrange", "lindex", "zrange", "zrevrange",
   "zrangebyscore", "zrevrangebyscore", "zpopmin", "zpopmax"}

\* the methods of AsyncClient that await the handle's *_iter method
AsyncAwaitIterOps ==
  {"hscan_iter", "scan_iter", "sscan_iter", "zscan_iter"}

\* the methods that hand their match pattern to the handle as it was given
ClientMatchOps ==
  {"scan", "scan_iter"}

AsyncMatchOps ==
  {"scan", "scan_iter"}


\* the operations a caller can run to completion by one call; the two
\* *_pipeline_ctx methods are async generators, whose body does not run
\* when they are called
ClientOps == ClientMasterOps \cup ClientSlaveOps
AsyncOps == (AsyncMasterOps \cup AsyncSlaveOps)
              \ {"write_pipeline_ctx", "read_pipeline_ctx"}

\* ClientRole with a plausible fault: the pop operations, which return
\* elements, routed like reads
ClientRolePopsAsReads(op) ==
  IF op \in ClientMasterOps \ {"lpop", "rpop", "spop", "zpopmin", "zpopmax"}
  THEN "master" ELSE "slave"

\* the role whose handle a method checks and calls
ClientRole(op) == IF op \in ClientMasterOps THEN "master" ELSE "slave"
AsyncRole(op) == IF op \in AsyncMasterOps THEN "master" ELSE "slave"
RoleOf(v, op) == IF v = "blocking" THEN ClientRole(op) ELSE AsyncRole(op)

\* the store key a method sends for one raw key
ClientKey(op, name) ==
  CASE op \in ClientMakeKeyOps -> make_key(name)
    [] op \in ClientStrKeyOps  -> make_key_str(name)
    [] op \in ClientFStrOps    -> fstr_key(name)
    [] op \in ClientRawKeyOps  -> raw_key(name)
    [] op \in ClientMatchOps   -> raw_key(name)
AsyncKey(op, name) ==
  CASE op \in AsyncMakeKeyOps -> make_key(name)
    [] op \in AsyncRawKeyOps  -> raw_key(name)
    [] op \in AsyncMatchOps   -> raw_key(name)
KeyOf(v, op, name) ==
  IF v = "blocking" THEN ClientKey(op, name) ELSE AsyncKey(op, name)

\* the store keys of a whole key list; the first key that cannot be built
\* raises and ends the call
RECURSIVE KeysOf(_, _, _)
KeysOf(v, op, names) ==
  IF names = <<>> THEN Ok(<<>>)
  ELSE LET k == KeyOf(v, op, Head(names)) IN
       IF ~k.ok THEN k
       ELSE LET r == KeysOf(v, op, Tail(names)) IN
            IF ~r.ok THEN r ELSE Ok(<<k.v>> \o r.v)

\* operations without a key parameter, with two (src, dst), with a list
NoKeyOps == ClientNoKeyOps \cup AsyncNoKeyOps
PairKeyOps == {"rename", "smove"}
MultiKeyOps ==
  {"mget", "mset", "delete", "delete_raw", "exists", "sdiff", "sinter",
   "sunion"}
\* operations whose value argument is encoded and kept by the string store
ValueOps == {"set"}

\* operations that take an optional match pattern and no key
MatchOps == ClientMatchOps \cup AsyncMatchOps

\* an argument that is no key: the name of a hash field (f), an application
\* value (v: an element, a member, the value of a field or of a key) and a
\* number (n: a score or an amount)
Arg(f, v, n) == [f |-> f, v |-> v, n |-> n]

\* the operations with a value among these arguments, with a field name,
\* and with a number
ValueArgOps == ClientEncodeOps \ {"set"}
FieldArgOps ==
  {"hset", "hsetnx", "hget", "hdel", "hexists", "hincrby", "hincrbyfloat",
   "hstrlen"}
ScoreArgOps == {"zadd", "zincrby"}

\* an argument the method does not encode goes to the handle as it is; the
\* library sends the bytes of a text and a number as a number
\* the pops, which take an optional count
CountArgOps == {"lpop", "rpop", "spop"}
native(v) == <<"raw", v>>
num(n) == <<"num", n>>

\* mutant: mget hands on the bytes of the reply
DecodeOpsNoMGet(v) ==
  (IF v = "blocking" THEN ClientDecodeOps ELSE AsyncDecodeOps) \ {"mget"}

EncodeOps(v) == IF v = "blocking" THEN ClientEncodeOps ELSE AsyncEncodeOps
DecodeOps(v) == IF v = "blocking" THEN ClientDecodeOps ELSE AsyncDecodeOps

\* what a method hands to the handle for one argument: the field name as
\* it is, the value and the number.  zadd encodes the values of its mapping
\* (the scores) and leaves the keys of the mapping (the members) alone.
ItemOf(v, op, a) ==
  [f |-> a.f,
   b |-> CASE op = "zadd"           -> native(a.v)
           [] op \in EncodeOps(v)   -> dumps(a.v)
           [] op \in ValueArgOps    -> native(a.v)
           [] OTHER                 -> <<>>,
   s |-> CASE op = "zadd"           -> dumps(a.n)
           [] op = "zincrby"        -> num(a.n)
           [] op \in CountArgOps    -> num(a.n)
           [] OTHER                 -> <<>>]

\* the method called on the role handle
StoreMethod(op) ==
  CASE op = "delete_raw" -> "delete"
    [] op \in {"write_pipeline", "read_pipeline", "write_pipeline_ctx",
               "read_pipeline_ctx"} -> "pipeline"
    [] OTHER -> op

NoCmd == [method |-> "none", role |-> "none", h |-> 0, keys |-> <<>>,
          arg |-> <<>>, items |-> <<>>]

\* the call on the handle: the method, the store keys ks, the encoded value
\* of set, and the other arguments
Command(v, op, role, h, ks, val, args) ==
  [method |-> StoreMethod(op), role |-> role, h |-> h, keys |-> ks,
   arg |-> IF op \in ValueOps THEN dumps(val) ELSE <<>>,
   items |-> [i \in 1..Len(args) |-> ItemOf(v, op, args[i])]]

(***************************************************************************)
(* The store behind the role handles.  The replica serves what the primary *)
(* holds.  A key holds a string (bytes) or a list, a set, a hash or a      *)
(* sorted set, kept as the sequence of its cells: an element or member (b),*)
(* for a hash the field name (f), for a sorted set the score (n).  Sets    *)
(* and hashes are kept in the order of insertion, sorted sets by score.    *)
(* Commands not listed in StoreExec have an opaque reply and no effect.    *)
(***************************************************************************)
StrEntry(k, b) == [k |-> k, t |-> "string", b |-> b, l |-> <<>>]
CollEntry(k, t, l) == [k |-> k, t |-> t, b |-> <<>>, l |-> l]
Cell(f, b, n) == [f |-> f, b |-> b, n |-> n]
\* no bytes, and the null of a reply
NoBytes == <<>>
Nil == <<"None", "">>
\* the text of an integer the store has counted (incr, hincrby)
IntText == <<"raw", "int">>

\* the entry kept under a store key
Holds(st, k) == \E e \in st : e.k = k
EntryAt(st, k) == CHOOSE e \in st : e.k = k
BytesAt(st, k) == EntryAt(st, k).b
TypeAt(st, k) == IF Holds(st, k) THEN EntryAt(st, k).t ELSE "none"
CellsAt(st, k) == IF Holds(st, k) THEN EntryAt(st, k).l ELSE <<>>
InKeys(k, ks) == \E i \in 1..Len(ks) : ks[i] = k
Put(st, e) == {x \in st : x.k # e.k} \cup {e}
\* a collection that has lost its last cell is gone
PutCells(st, k, t, l) ==
  IF l = <<>> THEN {x \in st : x.k # k} ELSE Put(st, CollEntry(k, t, l))

\* cells by member and by field name
HasB(l, b) == \E i \in 1..Len(l) : l[i].b = b
HasF(l, f) == \E i \in 1..Len(l) : l[i].f = f
AtB(l, b) == CHOOSE i \in 1..Len(l) : l[i].b = b
AtF(l, f) == CHOOSE i \in 1..Len(l) : l[i].f = f
DropB(l, b) == SelectSeq(l, LAMBDA c : c.b # b)
Reversed(l) == [i \in 1..Len(l) |-> l[Len(l) + 1 - i]]
Elements(items) == [i \in 1..Len(items) |-> Cell("", items[i].b, 0)]

\* MSET: every pair in turn, a later pair for the same key wins
RECURSIVE MSetAll(_, _, _)
MSetAll(st, ks, items) ==
  IF ks = <<>> \/ items = <<>> THEN st
  ELSE MSetAll(Put(st, StrEntry(Head(ks), Head(items).b)), Tail(ks),
               Tail(items))

\* SADD: the members the set does not hold yet
RECURSIVE SAddAll(_, _)
SAddAll(l, items) ==
  IF items = <<>> THEN l
  ELSE SAddAll(IF HasB(l, Head(items).b) THEN l
               ELSE Append(l, Cell("", Head(items).b, 0)), Tail(items))

\* SREM and ZREM: the members named are gone
RECURSIVE RemAll(_, _)
RemAll(l, items) ==
  IF items = <<>> THEN l ELSE RemAll(DropB(l, Head(items).b), Tail(items))

\* HSET: a field the hash holds gets the new value, a new field is added
RECURSIVE HSetAll(_, _)
HSetAll(l, items) ==
  IF items = <<>> THEN l
  ELSE LET c == Cell(Head(items).f, Head(items).b, 0) IN
       HSetAll(IF HasF(l, c.f)
               THEN [i \in 1..Len(l) |-> IF l[i].f = c.f THEN c ELSE l[i]]
               ELSE Append(l, c), Tail(items))

\* a member takes its place by its score, after the members of equal score
ZInsert(l, b, n) ==
  LET r == DropB(l, b) IN
  SelectSeq(r, LAMBDA c : c.n <= n) \o <<Cell("", b, n)>>
    \o SelectSeq(r, LAMBDA c : c.n > n)
RECURSIVE ZAddAll(_, _)
ZAddAll(l, items) ==
  IF items = <<>> THEN l
  ELSE ZAddAll(ZInsert(l, Head(items).b, Head(items).s[2]), Tail(items))
\* the store takes a score only as a number
Numeric(items) == \A i \in 1..Len(items) : items[i].s # <<>> /\ items[i].s[1] = "num"

\* what the store does and answers: the key space after the command, the
\* kind of the reply and its elements
Reply(st, reply, rep) == [store |-> st, reply |-> reply, rep |-> rep]
\* the store refuses the command (wrong type of the key, a score or a
\* counter that is no number, no arguments): the call on the handle raises
Refused(st) == Reply(st, <<"error">>, <<>>)

\* the reply to a scan of a collection: the handle's *_iter method yields
\* the entries of one pass; sscan, hscan and zscan answer with a cursor and
\* a page, and a collection as small as the ones kept here fits in one
\* page, so the cursor is 0
ScanReply(method) ==
  IF method \in {"sscan", "hscan", "zscan"} THEN <<"page", 0>> ELSE <<"iter">>

StoreExec(cmd, st) ==
  LET k == cmd.keys[1]
      t == TypeAt(st, k)
      l == CellsAt(st, k)
      its == cmd.items
      Is(ty) == t \in {"none", ty}
  IN
  CASE cmd.method = "set" ->
         Reply(Put(st, StrEntry(k, cmd.arg)), <<"True">>, <<>>)
    [] cmd.method = "get" ->
         IF ~Is("string") THEN Refused(st)
         ELSE Reply(st, IF t = "string" THEN <<"bytes">> \o BytesAt(st, k)
                        ELSE <<"None">>, <<>>)
    [] cmd.method = "delete" ->
         Reply({e \in st : ~InKeys(e.k, cmd.keys)}, <<"int">>, <<>>)
    [] cmd.method \in {"flushdb", "flushall"} ->
         Reply({}, <<"True">>, <<>>)
    [] cmd.method = "mset" ->
         IF its = <<>> THEN Refused(st)
         ELSE Reply(MSetAll(st, cmd.keys, its), <<"True">>, <<>>)
    [] cmd.method = "mget" ->
         Reply(st, <<"list">>,
               [i \in 1..Len(cmd.keys) |->
                  IF TypeAt(st, cmd.keys[i]) = "string"
                  THEN Cell("", BytesAt(st, cmd.keys[i]), 0)
                  ELSE Cell("", Nil, 0)])
    [] cmd.method = "incr" ->
         IF t = "none" \/ (t = "string" /\ BytesAt(st, k) = IntText)
         THEN Reply(Put(st, StrEntry(k, IntText)), <<"int">>, <<>>)
         ELSE Refused(st)
    [] cmd.method \in {"rpush", "lpush"} ->
         IF ~Is("list") \/ its = <<>> THEN Refused(st)
         ELSE Reply(PutCells(st, k, "list",
                             IF cmd.method = "rpush"
                             THEN l \o Elements(its)
                             ELSE Reversed(Elements(its)) \o l),
                    <<"int">>, <<>>)
    [] cmd.method = "lrange" ->
         IF ~Is("list") THEN Refused(st) ELSE Reply(st, <<"list">>, l)
    [] cmd.method \in CountArgOps /\ its # <<>> ->
         IF ~Is(IF cmd.method = "spop" THEN "set" ELSE "list")
         THEN Refused(st)
         ELSE IF l = <<>>
         THEN (IF cmd.method = "spop" THEN Reply(st, <<"list">>, <<>>)
               ELSE Reply(st, <<"None">>, <<>>))
         ELSE LET c == IF its[1].s[2] < Len(l) THEN its[1].s[2]
                       ELSE Len(l) IN
              IF cmd.method = "rpop"
              THEN Reply(PutCells(st, k, t, SubSeq(l, 1, Len(l) - c)),
                         <<"list">>,
                         Reversed(SubSeq(l, Len(l) - c + 1, Len(l))))
              ELSE Reply(PutCells(st, k, t, SubSeq(l, c + 1, Len(l))),
                         <<"list">>, SubSeq(l, 1, c))
    [] cmd.method \in CountArgOps ->
         IF ~Is(IF cmd.method = "spop" THEN "set" ELSE "list")
         THEN Refused(st)
         ELSE IF l = <<>> THEN Reply(st, <<"None">>, <<>>)
         ELSE IF cmd.method = "rpop"
         THEN Reply(PutCells(st, k, t, SubSeq(l, 1, Len(l) - 1)),
                    <<"one">>, <<l[Len(l)]>>)
         ELSE Reply(PutCells(st, k, t, Tail(l)), <<"one">>, <<Head(l)>>)
    [] cmd.method = "sadd" ->
         IF ~Is("set") \/ its = <<>> THEN Refused(st)
         ELSE Reply(PutCells(st, k, "set", SAddAll(l, its)), <<"int">>, <<>>)
    [] cmd.method \in {"srem", "zrem"} ->
         IF ~Is(IF cmd.method = "srem" THEN "set" ELSE "zset")
              \/ its = <<>>
         THEN Refused(st)
         ELSE Reply(PutCells(st, k, t, RemAll(l, its)), <<"int">>,
                    <<Cell("", NoBytes, Len(l) - Len(RemAll(l, its)))>>)
    [] cmd.method \in {"smembers", "sscan_iter", "sscan"} ->
         IF ~Is("set") THEN Refused(st)
         ELSE Reply(st, IF cmd.method = "smembers" THEN <<"set">>
                        ELSE ScanReply(cmd.method), l)
    [] cmd.method = "sismember" ->
         IF ~Is("set") \/ its = <<>> THEN Refused(st)
         ELSE Reply(st, <<"int">>,
                    <<Cell("", NoBytes, IF HasB(l, its[1].b) THEN 1 ELSE 0)>>)
    [] cmd.method = "hset" ->
         IF ~Is("hash") \/ its = <<>> THEN Refused(st)
         ELSE Reply(PutCells(st, k, "hash", HSetAll(l, its)), <<"int">>, <<>>)
    [] cmd.method = "hincrby" ->
         IF ~Is("hash") \/ its = <<>> THEN Refused(st)
         ELSE IF HasF(l, its[1].f) /\ l[AtF(l, its[1].f)].b # IntText
         THEN Refused(st)
         ELSE Reply(PutCells(st, k, "hash",
                             HSetAll(l, <<Cell(its[1].f, IntText, 0)>>)),
                    <<"int">>, <<>>)
    [] cmd.method = "hget" ->
         IF ~Is("hash") \/ its = <<>> THEN Refused(st)
         ELSE IF HasF(l, its[1].f)
         THEN Reply(st, <<"one">>, <<Cell("", l[AtF(l, its[1].f)].b, 0)>>)
         ELSE Reply(st, <<"None">>, <<>>)
    [] cmd.method \in {"hgetall", "hscan_iter", "hscan"} ->
         IF ~Is("hash") THEN Refused(st)
         ELSE Reply(st, IF cmd.method = "hgetall" THEN <<"dict">>
                        ELSE ScanReply(cmd.method), l)
    [] cmd.method = "hvals" ->
         IF ~Is("hash") THEN Refused(st)
         ELSE Reply(st, <<"list">>,
                    [i \in 1..Len(l) |-> Cell("", l[i].b, 0)])
    [] cmd.method = "zadd" ->
         IF ~Is("zset") \/ its = <<>> \/ ~Numeric(its) THEN Refused(st)
         ELSE Reply(PutCells(st, k, "zset", ZAddAll(l, its)), <<"int">>, <<>>)
    [] cmd.method = "zincrby" ->
         IF ~Is("zset") \/ its = <<>> \/ ~Numeric(its) THEN Refused(st)
         ELSE LET n == its[1].s[2]
                       + (IF HasB(l, its[1].b) THEN l[AtB(l, its[1].b)].n
                          ELSE 0) IN
              Reply(PutCells(st, k, "zset", ZInsert(l, its[1].b, n)),
                    <<"float">>, <<Cell("", NoBytes, n)>>)
    [] cmd.method \in {"zrange", "zscan_iter", "zscan"} ->
         IF ~Is("zset") THEN Refused(st)
         ELSE Reply(st, IF cmd.method = "zrange" THEN <<"pairs">>
                        ELSE ScanReply(cmd.method), l)
    [] cmd.method \in {"zscore", "zrank"} ->
         IF ~Is("zset") \/ its = <<>> THEN Refused(st)
         ELSE IF ~HasB(l, its[1].b) THEN Reply(st, <<"None">>, <<>>)
         ELSE Reply(st, IF cmd.method = "zscore" THEN <<"float">>
                        ELSE <<"int">>,
                    <<Cell("", NoBytes,
                           IF cmd.method = "zscore"
                           THEN l[AtB(l, its[1].b)].n
                           ELSE AtB(l, its[1].b) - 1)>>)
    [] OTHER -> Reply(st, <<"opaque">>, <<>>)

\* what a method makes of the store's reply: get decodes a byte string and
\* passes None on; every other reply is returned as it came
Decoded(op, reply) ==
  IF op = "get" /\ reply[1] = "bytes"
  THEN LET r == loads(Tail(reply)) IN
       IF r.ok THEN Ok(<<"value", r.v>>) ELSE r
  ELSE Ok(reply)

\* the replies that carry elements, and what a call returns of them: the
\* kind of the reply and its elements, each with its field name (ft: handed
\* on as text or as the bytes the store sent), its value (b: <<"value", v>>
\* when decoded, else the bytes as the store sent them) and its number
Shapes ==
  {"list", "set", "dict", "pairs", "one", "iter", "page", "float", "int"}
ResCell(f, ft, b, n) == [f |-> f, ft |-> ft, b |-> b, n |-> n]
NoRes == [shape |-> "none", l |-> <<>>]

\* the methods of Client that turn the field names of a reply into text
ClientFieldTextOps == {"hgetall", "hrandfield", "hscan", "hscan_iter"}

\* an element pickle.loads accepts (a null and a number are not decoded)
Decodable(c) == c.b \in {NoBytes, Nil} \/ loads(c.b).ok
\* the first element of a reply that pickle.loads rejects, or Len + 1
FirstBad(rep) ==
  IF \A i \in 1..Len(rep) : Decodable(rep[i]) THEN Len(rep) + 1
  ELSE CHOOSE i \in 1..Len(rep) :
         ~Decodable(rep[i]) /\ \A j \in 1..(i - 1) : Decodable(rep[j])
\* one element as the method hands it on
Handed(c, dec, names) ==
  ResCell(c.f,
          IF c.f = "" THEN "" ELSE IF names THEN "text" ELSE "bytes",
          IF dec /\ c.b \notin {NoBytes, Nil}
          THEN <<"value", loads(c.b).v>> ELSE c.b,
          c.n)

\* what a method makes of a reply with elements.  A method that decodes
\* builds its result element by element, and the first element that
\* pickle.loads rejects raises; a generator has by then yielded the
\* elements before it, every other method has returned nothing.
DecodedRep(v, op, reply, rep) ==
  LET dec == op \in DecodeOps(v)
      names == v = "blocking" /\ op \in ClientFieldTextOps
      upto == IF dec THEN FirstBad(rep) - 1 ELSE Len(rep)
      part == [shape |-> reply[1],
               l |-> [i \in 1..upto |-> Handed(rep[i], dec, names)]]
  IN
  IF upto < Len(rep)
  THEN [ok |-> FALSE, err |-> "UnpicklingError",
        res |-> IF v = "blocking" /\ op \in ClientGeneratorOps
                THEN part ELSE NoRes]
  ELSE [ok |-> TRUE, err |-> "none", res |-> part]

(***************************************************************************)
(* State                                                                   *)
(***************************************************************************)
VARIABLES
  variant,      \* "blocking" (Client) or "suspending" (AsyncClient)
  phase,        \* "new", "live", or "failed": the constructor raised
  sentinel,     \* __sentinel: 0 or the monitor handle
  master,       \* __master: 0 or the primary handle
  slave,        \* __slave: 0 or the replica handle
  connected,    \* the connected flag
  closedH,      \* the roles whose current handle has had close() called
  nconn,        \* connect attempts made so far
  store,        \* the key space of the store: entries (store key, bytes)
  task,         \* per coroutine: the call it is in and where
  done,         \* the call that has just finished, with its outcome
  prev          \* the kind of the call whose outcome was taken last

vars == <<variant, phase, sentinel, master, slave, connected, closedH,
          nconn, store, task, done, prev>>

\* the connection fields as one record
Conn == [sentinel |-> sentinel, master |-> master, slave |-> slave,
         connected |-> connected, closed |-> closedH]
SetConn(cs) ==
  /\ sentinel' = cs.sentinel
  /\ master' = cs.master
  /\ slave' = cs.slave
  /\ connected' = cs.connected
  /\ closedH' = cs.closed

NoConn == [sentinel |-> 0, master |-> 0, slave |-> 0, connected |-> FALSE,
           closed |-> {}]

\* the field a method checks against None and calls
HandleOf(cs, role) == IF role = "master" THEN cs.master ELSE cs.slave
\* that field is None for the method op (connect and close require none)
NullFor(v, op, cs) ==
  op \notin {"connect", "close", "__init__"} /\ HandleOf(cs, RoleOf(v, op)) = 0

\* a coroutine's call: where it is suspended (pc), its arguments, the
\* connect attempts it has made (att), connected and whether the required
\* handle was None as the call found them (conn0, null0), the store command
\* it has sent (cmd) and the number of its connect attempt (cn)
IdleTask == [pc |-> "idle", op |-> "none", keys |-> <<>>, val |-> "none",
             args |-> <<>>, att |-> 0, conn0 |-> FALSE, null0 |-> FALSE,
             cmd |-> NoCmd, cn |-> 0]

\* the record of a finished call: its arguments, its outcome (out is
\* "return" or the exception raised, ret the value returned, res the
\* elements returned or yielded), the step of connect that raised (at),
\* the connection fields when it ended (post), and whether the store held
\* nothing under the key of the command when it arrived (fresh)
NoDone == [op |-> "none", keys |-> <<>>, val |-> "none", args |-> <<>>,
           out |-> "none", ret |-> <<>>, res |-> NoRes, att |-> 0,
           conn0 |-> FALSE, null0 |-> FALSE, at |-> "none", cmd |-> NoCmd,
           fresh |-> FALSE, post |-> NoConn]

\* the writes whose arguments are remembered
TrackedOps == {"set", "mset", "rpush", "sadd", "hset", "zadd", "zincrby"}

\* what is remembered of a call once its caller has taken the outcome: a
\* close() that returned, a call whose connect raised and left connected
\* false, a write that returned (with its arguments when track is set), or
\* another call
NoPrev == [kind |-> "none", keys |-> <<>>, val |-> "none", args |-> <<>>,
           fresh |-> FALSE]
Kind(d, track) ==
  CASE d.op = "close" /\ d.out = "return" ->
         [NoPrev EXCEPT !.kind = "close"]
    [] d.at # "none" /\ ~d.post.connected ->
         [NoPrev EXCEPT !.kind = "connfail"]
    [] track /\ d.op \in TrackedOps /\ d.out = "return" ->
         [kind |-> d.op, keys |-> d.keys, val |-> d.val, args |-> d.args,
          fresh |-> d.fresh]
    [] OTHER -> [NoPrev EXCEPT !.kind = "other"]

Init ==
  /\ variant \in {"blocking", "suspending"}
  /\ phase = "new"
  /\ sentinel = 0
  /\ master = 0
  /\ slave = 0
  /\ connected = FALSE
  /\ closedH = {}
  /\ nconn = 0
  /\ store = {}
  /\ task = [t \in Tasks |-> IdleTask]
  /\ done = NoDone
  /\ prev = NoPrev

(***************************************************************************)
(* TopologyResolver: connect                                               *)
(***************************************************************************)
\* the step of connect at which the monitor or the library raises, if any
ConnectSteps ==
  {"ok", "sentinel", "discover_master", "discover_slaves", "master_for",
   "slave_for"}

\* the exception of a connect that raised at step e.  Both clients raise
\* the name ConnectionError from the except clause of the try block; the
\* blocking client wraps the construction of the Sentinel object, too, the
\* suspending client constructs it outside the try block, so that what the
\* library raises there reaches the caller as it is.
ClientConnectError(e) ==
  IF e = "sentinel" THEN "SentinelError" ELSE "ConnectionError"
AsyncConnectError(e) ==
  IF e = "sentinel" THEN "RedisError" ELSE "ConnectionError"

\* ObtainHandles with a plausible fault: connected = True placed before the
\* call of slave_for
ObtainHandlesFlagFirst(e, id, cs) ==
  IF e = "master_for" THEN cs
  ELSE IF e = "slave_for"
       THEN [cs EXCEPT !.master = id, !.closed = @ \ {"master"},
                       !.connected = TRUE]
       ELSE [cs EXCEPT !.master = id, !.slave = id, !.closed = {},
                       !.connected = TRUE]

\* master_for, slave_for and connected = True: the tail of the try block in
\* both clients, run without suspension.  e names the call that raises.
ObtainHandles(e, id, cs) ==
  IF e = "master_for" THEN cs
  ELSE IF e = "slave_for"
       THEN [cs EXCEPT !.master = id, !.closed = @ \ {"master"}]
       ELSE [cs EXCEPT !.master = id, !.slave = id, !.closed = {},
                       !.connected = TRUE]

\* Client.__connect, run to its end
Client_connect(e, id, cs) ==
  IF e = "sentinel" THEN cs
  ELSE IF e \in {"discover_master", "discover_slaves"}
       THEN [cs EXCEPT !.sentinel = id]
       ELSE ObtainHandles(e, id, [cs EXCEPT !.sentinel = id])

(***************************************************************************)
(* The blocking client: every call runs to completion                      *)
(***************************************************************************)
\* Client.__init__: sets the fields and runs __connect once; when it
\* raises, the caller gets no client object
ClientInit(e) ==
  /\ done = NoDone
  /\ variant = "blocking"
  /\ phase = "new"
  /\ \E cs \in {Client_connect(e, nconn + 1, NoConn)} :
     /\ SetConn(cs)
     /\ done' = [NoDone EXCEPT
                   !.op = "__init__", !.att = 1,
                   !.out = IF e = "ok" THEN "return" ELSE ClientConnectError(e),
                   !.at = IF e = "ok" THEN "none" ELSE e,
                   !.post = cs]
  /\ phase' = IF e = "ok" THEN "live" ELSE "failed"
  /\ nconn' = nconn + 1
  /\ UNCHANGED <<variant, store, task, prev>>

\* Prepare with a plausible fault: a data method of the blocking client
\* refuses to run on a client that is not connected
PrepareChecksFlag(v, op, keys, val, args, cs) ==
  LET role == RoleOf(v, op)
      h == HandleOf(cs, role)
      ks == KeysOf(v, op, keys)
  IN
  IF h = 0 \/ (v = "blocking" /\ ~cs.connected)
  THEN [out |-> "InitError", cmd |-> NoCmd]
  ELSE IF ~ks.ok THEN [out |-> ks.err, cmd |-> NoCmd]
  ELSE IF v = "suspending" /\ op \in AsyncAwaitIterOps
  THEN [out |-> "TypeError", cmd |-> NoCmd]
  ELSE [out |-> "none", cmd |-> Command(v, op, role, h, ks.v, val, args)]

\* what every data method does, after its connection check, up to the store
\* call: the guard on the role handle, the keys, the encoding.  The *_iter
\* methods of AsyncClient await what the handle's *_iter method returns, an
\* asynchronous generator: the await raises TypeError and no command is
\* sent.
Prepare(v, op, keys, val, args, cs) ==
  LET role == RoleOf(v, op)
      h == HandleOf(cs, role)
      ks == KeysOf(v, op, keys)
  IN
  IF h = 0 THEN [out |-> "InitError", cmd |-> NoCmd]
  ELSE IF ~ks.ok THEN [out |-> ks.err, cmd |-> NoCmd]
  ELSE IF v = "suspending" /\ op \in AsyncAwaitIterOps
  THEN [out |-> "TypeError", cmd |-> NoCmd]
  ELSE [out |-> "none", cmd |-> Command(v, op, role, h, ks.v, val, args)]

\* the store call and what the method makes of its reply.  fail: the call
\* on the handle raises (store unreachable, write refused, ...), as it
\* does when the store refuses the command
Complete(v, op, cmd, st, fail) ==
  LET x == StoreExec(cmd, st)
      fresh == cmd.keys # <<>> /\ ~Holds(st, cmd.keys[1])
  IN
  IF fail \/ x.reply = <<"error">>
  THEN [out |-> "RedisError", ret |-> <<>>, res |-> NoRes, store |-> st,
        fresh |-> fresh]
  ELSE LET d == Decoded(op, x.reply)
           r == IF x.reply[1] \in Shapes
                THEN DecodedRep(v, op, x.reply, x.rep)
                ELSE [ok |-> TRUE, err |-> "none", res |-> NoRes] IN
       [out |-> IF ~d.ok THEN d.err ELSE IF ~r.ok THEN r.err ELSE "return",
        ret |-> IF d.ok /\ r.ok THEN d.v ELSE <<>>,
        res |-> r.res, store |-> x.store, fresh |-> fresh]

\* a data method of Client, run to its end
RunCommand(op, keys, val, args, cs, st, fail) ==
  LET p == Prepare("blocking", op, keys, val, args, cs) IN
  IF p.out # "none"
  THEN [out |-> p.out, ret |-> <<>>, res |-> NoRes, cmd |-> NoCmd,
        store |-> st, fresh |-> FALSE]
  ELSE LET c == Complete("blocking", op, p.cmd, st, fail) IN
       [out |-> c.out, ret |-> c.ret, res |-> c.res, cmd |-> p.cmd,
        store |-> c.store, fresh |-> c.fresh]

\* a data method of Client, one of the calls CC: no look at connected, no
\* connect
ClientCall(CC) ==
  /\ done = NoDone
  /\ variant = "blocking"
  /\ phase = "live"
  /\ \E c \in CC, fail \in BOOLEAN :
     \E r \in {RunCommand(c.op, c.keys, c.val, c.args, Conn, store,
                           fail)} :
       /\ store' = r.store
       /\ done' = [NoDone EXCEPT
                     !.op = c.op, !.keys = c.keys, !.val = c.val,
                     !.args = c.args, !.out = r.out, !.ret = r.ret,
                     !.res = r.res, !.conn0 = connected,
                     !.null0 = NullFor("blocking", c.op, Conn),
                     !.cmd = r.cmd, !.fresh = r.fresh, !.post = Conn]
  /\ UNCHANGED <<variant, phase, sentinel, master, slave, connected, closedH,
                 nconn, task, prev>>

\* CloseHandles with a plausible fault: the replica handle is not closed
CloseHandlesMasterOnly(cs) ==
  [cs EXCEPT !.closed = @ \cup {r \in {"master"} : cs.master # 0},
             !.sentinel = 0, !.connected = FALSE]

\* CloseHandles with a plausible fault: the role fields are cleared like
\* the monitor field
CloseHandlesClears(cs) ==
  [cs EXCEPT !.closed = @ \cup {r \in {"master", "slave"} :
                                  HandleOf(cs, r) # 0},
             !.master = 0, !.slave = 0,
             !.sentinel = 0, !.connected = FALSE]

\* close(): closes the role handles that are set, drops the monitor handle
\* and clears connected; the role fields keep their (closed) handles
CloseHandles(cs) ==
  [cs EXCEPT !.closed = @ \cup {r \in {"master", "slave"} :
                                  HandleOf(cs, r) # 0},
             !.sentinel = 0, !.connected = FALSE]

\* Client.close
ClientClose ==
  /\ done = NoDone
  /\ variant = "blocking"
  /\ phase = "live"
  /\ SetConn(CloseHandles(Conn))
  /\ done' = [NoDone EXCEPT !.op = "close", !.out = "return",
                            !.conn0 = connected,
                            !.post = CloseHandles(Conn)]
  /\ UNCHANGED <<variant, phase, nconn, store, task, prev>>

(***************************************************************************)
(* The suspending client: a call is suspended while it awaits the monitor  *)
(* (discover_master, discover_slaves), the store (the command) or a        *)
(* handle's close(); other coroutines run in between                       *)
(***************************************************************************)
\* AsyncClient.__init__: sets the fields, no I/O
AsyncClientInit ==
  /\ done = NoDone
  /\ variant = "suspending"
  /\ phase = "new"
  /\ phase' = "live"
  /\ UNCHANGED <<variant, sentinel, master, slave, connected, closedH, nconn,
                 store, task, done, prev>>

\* MustConnect with plausible faults: the test looks at the handles instead
\* of the flag; the test lets a client connect only once
MustConnectIfNoHandle(cs) == cs.master = 0 \/ cs.slave = 0
MustConnectOnce(cs) == ~cs.connected /\ cs.sentinel = 0

\* "if not self.connected: await self.connect()", the first statement of
\* every data method of AsyncClient
MustConnect(cs) == ~cs.connected

\* the call of coroutine t ends: out is "return" or the exception raised,
\* res the elements returned
FinishWith(t, out, ret, res, at, cmd, fresh, post) ==
  /\ task' = [task EXCEPT ![t] = IdleTask]
  /\ done' = [op |-> task[t].op, keys |-> task[t].keys, val |-> task[t].val,
              args |-> task[t].args, out |-> out, ret |-> ret, res |-> res,
              att |-> task[t].att, conn0 |-> task[t].conn0,
              null0 |-> task[t].null0, at |-> at, cmd |-> cmd,
              fresh |-> fresh, post |-> post]
Finish(t, out, ret, at, cmd, post) ==
  FinishWith(t, out, ret, NoRes, at, cmd, FALSE, post)

\* BeginConnect with a plausible fault: connected = True placed before the
\* awaits
BeginConnectFlagFirst(t, op, keys, val, args, e) ==
  /\ nconn < MaxConnects
  /\ nconn' = nconn + 1
  /\ IF e = "sentinel"
     THEN /\ task' = task
          /\ done' = [NoDone EXCEPT
                        !.op = op, !.keys = keys, !.val = val,
                        !.args = args,
                        !.out = AsyncConnectError(e), !.att = 1,
                        !.conn0 = connected,
                        !.null0 = NullFor("suspending", op, Conn),
                        !.at = e, !.post = Conn]
          /\ UNCHANGED <<sentinel, master, slave, connected, closedH>>
     ELSE /\ sentinel' = nconn + 1
          /\ connected' = TRUE
          /\ task' = [task EXCEPT ![t] =
                        [pc |-> "discover_master", op |-> op, keys |-> keys,
                         val |-> val, args |-> args, att |-> 1,
                         conn0 |-> connected,
                         null0 |-> NullFor("suspending", op, Conn),
                         cmd |-> NoCmd, cn |-> nconn + 1]]
          /\ UNCHANGED <<master, slave, closedH, done>>
  /\ UNCHANGED <<variant, phase, store, prev>>

\* AsyncClient.connect up to its first suspension: builds the Sentinel
\* object (outside the try block) and awaits discover_master
BeginConnect(t, op, keys, val, args, e) ==
  /\ nconn < MaxConnects
  /\ nconn' = nconn + 1
  /\ IF e = "sentinel"
     THEN /\ task' = task
          /\ done' = [NoDone EXCEPT
                        !.op = op, !.keys = keys, !.val = val,
                        !.args = args,
                        !.out = AsyncConnectError(e), !.att = 1,
                        !.conn0 = connected,
                        !.null0 = NullFor("suspending", op, Conn),
                        !.at = e, !.post = Conn]
          /\ UNCHANGED <<sentinel, master, slave, connected, closedH>>
     ELSE /\ sentinel' = nconn + 1
          /\ task' = [task EXCEPT ![t] =
                        [pc |-> "discover_master", op |-> op, keys |-> keys,
                         val |-> val, args |-> args, att |-> 1,
                         conn0 |-> connected,
                         null0 |-> NullFor("suspending", op, Conn),
                         cmd |-> NoCmd, cn |-> nconn + 1]]
          /\ UNCHANGED <<master, slave, connected, closedH, done>>
  /\ UNCHANGED <<variant, phase, store, prev>>

\* await connect(), called by the application
AsyncConnect(t, e) ==
  /\ done = NoDone
  /\ variant = "suspending"
  /\ phase = "live"
  /\ task[t].pc = "idle"
  /\ e \in {"ok", "sentinel"}
  /\ BeginConnect(t, "connect", <<>>, "none", <<>>, e)

\* the guard, the keys and the store call of a data method, with the
\* connection fields cs: the call ends at once with an exception or is
\* suspended in its store call
Dispatch(t, op, keys, val, args, cs) ==
  \E p \in {Prepare("suspending", op, keys, val, args, cs)} :
    IF p.out # "none"
    THEN /\ task' = task
         /\ done' = [NoDone EXCEPT
                       !.op = op, !.keys = keys, !.val = val,
                       !.args = args, !.out = p.out,
                       !.conn0 = cs.connected,
                       !.null0 = NullFor("suspending", op, cs), !.post = cs]
    ELSE /\ task' = [task EXCEPT ![t] =
                       [pc |-> "cmd", op |-> op, keys |-> keys, val |-> val,
                        args |-> args, att |-> 0, conn0 |-> cs.connected,
                        null0 |-> NullFor("suspending", op, cs),
                        cmd |-> p.cmd, cn |-> 0]]
         /\ done' = done

\* a data method of AsyncClient, one of the calls AC, up to its first
\* suspension: connect() when connected is false, otherwise the guard, the
\* keys and the store call
AsyncCall(t, AC) ==
  /\ done = NoDone
  /\ variant = "suspending"
  /\ phase = "live"
  /\ task[t].pc = "idle"
  /\ \E c \in AC :
       IF MustConnect(Conn)
       THEN \E e \in {"ok", "sentinel"} :
              BeginConnect(t, c.op, c.keys, c.val, c.args, e)
       ELSE /\ Dispatch(t, c.op, c.keys, c.val, c.args, Conn)
            /\ UNCHANGED <<variant, phase, sentinel, master, slave,
                           connected, closedH, nconn, store, prev>>

\* mutant: a connect whose discover_master raised is tried again
DiscoverMasterReturnRetry(t, ok) ==
  /\ done = NoDone
  /\ task[t].pc = "discover_master"
  /\ IF ~ok /\ nconn < MaxConnects
     THEN /\ nconn' = nconn + 1
          /\ sentinel' = nconn + 1
          /\ task' = [task EXCEPT ![t].cn = nconn + 1]
          /\ done' = done
     ELSE /\ IF ~ok \/ sentinel = 0
             THEN Finish(t, AsyncConnectError("discover_master"), <<>>,
                         "discover_master", NoCmd, Conn)
             ELSE /\ task' = [task EXCEPT ![t].pc = "discover_slaves"]
                  /\ done' = done
          /\ UNCHANGED <<sentinel, nconn>>
  /\ UNCHANGED <<variant, phase, master, slave, connected, closedH, store,
                 prev>>

\* discover_master returns or raises.  The next line reads __sentinel
\* again; if close() has set it to None meanwhile, the attribute error is
\* caught by the except clause like any other.
DiscoverMasterReturn(t, ok) ==
  /\ done = NoDone
  /\ task[t].pc = "discover_master"
  /\ IF ~ok
     THEN Finish(t, AsyncConnectError("discover_master"), <<>>,
                 "discover_master", NoCmd, Conn)
     ELSE IF sentinel = 0
     THEN Finish(t, AsyncConnectError("discover_slaves"), <<>>,
                 "discover_slaves", NoCmd, Conn)
     ELSE /\ task' = [task EXCEPT ![t].pc = "discover_slaves"]
          /\ done' = done
  /\ UNCHANGED <<variant, phase, sentinel, master, slave, connected, closedH,
                 nconn, store, prev>>

\* discover_slaves returns or raises; then, without suspension, master_for,
\* slave_for, connected = True, the return to the data method, its guard
\* and its store call.  With __sentinel set to None meanwhile, master_for
\* is an attribute error.
DiscoverSlavesReturn(t, e) ==
  /\ done = NoDone
  /\ task[t].pc = "discover_slaves"
  /\ e \in {"ok", "discover_slaves", "master_for", "slave_for"}
  /\ IF e = "discover_slaves" \/ sentinel = 0
     THEN /\ Finish(t, AsyncConnectError(e), <<>>,
                    IF e = "discover_slaves" THEN e ELSE "master_for",
                    NoCmd, Conn)
          /\ UNCHANGED <<sentinel, master, slave, connected, closedH>>
     ELSE \E cs \in {ObtainHandles(e, task[t].cn, Conn)} :
          /\ SetConn(cs)
          /\ IF e # "ok"
             THEN Finish(t, AsyncConnectError(e), <<>>, e, NoCmd, cs)
             ELSE IF task[t].op = "connect"
             THEN Finish(t, "return", <<>>, "none", NoCmd, cs)
             ELSE \E p \in {Prepare("suspending", task[t].op, task[t].keys,
                                    task[t].val, task[t].args, cs)} :
                  IF p.out # "none"
                  THEN Finish(t, p.out, <<>>, "none", NoCmd, cs)
                  ELSE /\ task' = [task EXCEPT ![t].pc = "cmd",
                                               ![t].cmd = p.cmd]
                       /\ done' = done
  /\ UNCHANGED <<variant, phase, nconn, store, prev>>

\* CmdReturn with a plausible fault: a command that failed marks the
\* client disconnected, so that the next call connects again
CmdReturnResets(t, fail) ==
  /\ done = NoDone
  /\ task[t].pc = "cmd"
  /\ \E c \in {Complete("suspending", task[t].op, task[t].cmd, store,
                         fail)} :
     /\ store' = c.store
     /\ connected' = (connected /\ c.out # "RedisError")
     /\ FinishWith(t, c.out, c.ret, c.res, "none", task[t].cmd, c.fresh,
                   [Conn EXCEPT !.connected = connected'])
  /\ UNCHANGED <<variant, phase, sentinel, master, slave, closedH,
                 nconn, prev>>

\* the store answers the command or the call on the handle raises
CmdReturn(t, fail) ==
  /\ done = NoDone
  /\ task[t].pc = "cmd"
  /\ \E c \in {Complete("suspending", task[t].op, task[t].cmd, store,
                         fail)} :
     /\ store' = c.store
     /\ FinishWith(t, c.out, c.ret, c.res, "none", task[t].cmd, c.fresh,
                   Conn)
  /\ UNCHANGED <<variant, phase, sentinel, master, slave, connected, closedH,
                 nconn, prev>>

\* the last two statements of close(): __sentinel = None, connected = False
DropMonitor(cs) == [cs EXCEPT !.sentinel = 0, !.connected = FALSE]

\* AsyncClient.close up to its first suspension: await __master.close() if
\* the field is set, else await __slave.close() if that is set, else the end
AsyncClose(t) ==
  /\ done = NoDone
  /\ variant = "suspending"
  /\ phase = "live"
  /\ task[t].pc = "idle"
  /\ IF master # 0 \/ slave # 0
     THEN /\ closedH' = closedH \cup {IF master # 0 THEN "master" ELSE "slave"}
          /\ task' = [task EXCEPT ![t] =
                        [IdleTask EXCEPT
                           !.pc = IF master # 0 THEN "close_master"
                                  ELSE "close_slave",
                           !.op = "close", !.conn0 = connected]]
          /\ UNCHANGED <<sentinel, master, slave, connected, done>>
     ELSE /\ SetConn(DropMonitor(Conn))
          /\ task' = task
          /\ done' = [NoDone EXCEPT !.op = "close", !.out = "return",
                                    !.conn0 = connected,
                                    !.post = DropMonitor(Conn)]
  /\ UNCHANGED <<variant, phase, nconn, store, prev>>

\* __master.close() is done; __slave is read now
CloseMasterReturn(t) ==
  /\ done = NoDone
  /\ task[t].pc = "close_master"
  /\ IF slave # 0
     THEN /\ closedH' = closedH \cup {"slave"}
          /\ task' = [task EXCEPT ![t].pc = "close_slave"]
          /\ UNCHANGED <<sentinel, master, slave, connected, done>>
     ELSE /\ SetConn(DropMonitor(Conn))
          /\ Finish(t, "return", <<>>, "none", NoCmd, DropMonitor(Conn))
  /\ UNCHANGED <<variant, phase, nconn, store, prev>>

\* __slave.close() is done
CloseSlaveReturn(t) ==
  /\ done = NoDone
  /\ task[t].pc = "close_slave"
  /\ SetConn(DropMonitor(Conn))
  /\ Finish(t, "return", <<>>, "none", NoCmd, DropMonitor(Conn))
  /\ UNCHANGED <<variant, phase, nconn, store, prev>>

\* the task of coroutine t is cancelled while its connect() awaits the
\* monitor: CancelledError is raised at the await; it is not an Exception,
\* so the except clause of connect() lets it pass and no statement after
\* the await runs
CancelConnect(t) ==
  /\ done = NoDone
  /\ task[t].pc \in {"discover_master", "discover_slaves"}
  /\ Finish(t, "CancelledError", <<>>, task[t].pc, NoCmd, Conn)
  /\ UNCHANGED <<variant, phase, sentinel, master, slave, connected, closedH,
                 nconn, store, prev>>

\* the methods that hand a pipeline of a role handle to the caller (the
\* blocking client has neither the *_ctx methods nor transaction)
PipelineOps(v) ==
  IF v = "blocking" THEN {"write_pipeline", "read_pipeline"}
  ELSE {"write_pipeline_ctx", "write_pipeline", "read_pipeline_ctx",
        "read_pipeline", "transaction"}

\* a caller takes a pipeline by op on a connected client and starts to
\* queue commands: the guard on the role handle, then the handle's
\* pipeline() or, for transaction, its transaction(func).  The *_ctx
\* methods are asynchronous generators without a context manager around
\* them: the caller iterates ("async for pipe in ..."), and the first step
\* of the iteration runs the body up to the yield inside "async with".
AcquirePipeline(t, op) ==
  /\ done = NoDone
  /\ phase = "live"
  /\ task[t].pc = "idle"
  /\ op \in PipelineOps(variant)
  /\ variant = "suspending" => connected
  /\ \E p \in {Prepare(variant, op, <<>>, "none", <<>>, Conn)} :
       IF p.out # "none"
       THEN /\ task' = task
            /\ done' = [NoDone EXCEPT !.op = op, !.out = p.out,
                                      !.conn0 = connected,
                                      !.null0 = NullFor(variant, op, Conn),
                                      !.post = Conn]
       ELSE /\ task' = [task EXCEPT ![t] =
                          [IdleTask EXCEPT !.pc = "pipeline", !.op = op,
                                           !.conn0 = connected,
                                           !.cmd = p.cmd]]
            /\ done' = done
  /\ UNCHANGED <<variant, phase, sentinel, master, slave, connected, closedH,
                 nconn, store, prev>>

\* whether the pipeline taken by op is released when its use ends by path:
\* the batch was submitted ("return"), its submission raised ("execute"),
\* or the caller's commands raised before it ("commands").  The handle's
\* execute() resets the pipeline whether it raises or not, and the
\* handle's transaction() brackets func itself.  Before the submission, a
\* *_ctx generator is suspended at its yield: an exception in the loop
\* body leaves the loop without resuming it, so the "async with" in it is
\* not left; a pipeline returned by write_pipeline or read_pipeline is
\* released when the caller has put it in a with statement (scoped).
ReleasesPipeline(op, path, scoped) ==
  CASE path \in {"return", "execute"} -> TRUE
    [] op = "transaction" -> TRUE
    [] op \in {"write_pipeline_ctx", "read_pipeline_ctx"} -> FALSE
    [] OTHER -> scoped

\* the use of the pipeline taken by coroutine t ends by path
LeavePipeline(t, path, scoped) ==
  /\ done = NoDone
  /\ task[t].pc = "pipeline"
  /\ path \in {"return", "execute", "commands"}
  /\ Finish(t,
            CASE path = "return" -> "return"
              [] path = "execute" -> "RedisError"
              [] OTHER -> "Exception",
            IF ReleasesPipeline(task[t].op, path, scoped)
            THEN <<"released">> ELSE <<"open">>,
            "pipeline", task[t].cmd, Conn)
  /\ UNCHANGED <<variant, phase, sentinel, master, slave, connected, closedH,
                 nconn, store, prev>>

(***************************************************************************)
(* Inputs and specifications                                               *)
(***************************************************************************)
\* raw keys: text, the same name as bytes and as a memory view, an integer,
\* and a byte string that is not UTF-8
RawKeys ==
  {StrKey(<<"a">>), BytesKey(<<97>>), ViewKey(<<97>>), IntKey(1),
   BytesKey(<<255>>)}
Values == {"v1", "v2"}

Fields == {"f1", "f2"}
Scores == {1, 2}

\* the key lists and the value a call of op can be given; a match pattern
\* is given or left out
KeyArgs(op, K) ==
  IF op \in MatchOps THEN {<<>>} \cup {<<k>> : k \in K}
  ELSE IF op \in NoKeyOps THEN {<<>>}
  ELSE IF op \in PairKeyOps THEN {<<a, b>> : a \in K, b \in K}
  ELSE IF op \in MultiKeyOps THEN UNION {[1..n -> K] : n \in 1..MaxKeys}
  ELSE {<<k>> : k \in K}
ValArgs(op, V) == IF op \in ValueOps THEN V ELSE {"none"}

\* sequences of one to n arguments out of A that differ in what Same
\* compares (the keys of a mapping differ)
Lists(A, n, Same(_, _)) ==
  {l \in UNION {[1..m -> A] : m \in 1..n} :
     \A i, j \in 1..Len(l) : i # j => ~Same(l[i], l[j])}

\* the other arguments a call of op with the keys ks can be given: values
\* out of V, field names out of F, numbers out of S, lists of at most n
ArgLists(op, ks, V, F, S, n) ==
  LET None(a, b) == FALSE IN
  CASE op = "mset" -> [1..Len(ks) -> {Arg("", v, 0) : v \in V}]
    [] op \in {"lpush", "rpush", "sadd", "srem", "zrem"} ->
         Lists({Arg("", v, 0) : v \in V}, n, None)
    [] op = "hset" ->
         Lists({Arg(f, v, 0) : f \in F, v \in V}, n,
               LAMBDA a, b : a.f = b.f)
    [] op = "zadd" ->
         Lists({Arg("", v, x) : v \in V, x \in S}, n,
               LAMBDA a, b : a.v = b.v)
    [] op = "zincrby" -> {<<Arg("", v, x)>> : v \in V, x \in S}
    [] op \in CountArgOps -> {<<>>} \cup {<<Arg("", "none", x)>> : x \in S}
    [] op \in ValueArgOps \cap FieldArgOps ->
         {<<Arg(f, v, 0)>> : f \in F, v \in V}
    [] op \in ValueArgOps -> {<<Arg("", v, 0)>> : v \in V}
    [] op \in FieldArgOps -> {<<Arg(f, "none", 0)>> : f \in F}
    [] OTHER -> {<<>>}

\* the calls of the operations O with raw keys K, values V, field names F,
\* numbers S and argument lists of at most n
CallsWith(O, K, V, F, S, n) ==
  UNION {UNION {{[op |-> op, keys |-> ks, val |-> v, args |-> as] :
                   v \in ValArgs(op, V),
                   as \in ArgLists(op, ks, V, F, S, n)} :
                ks \in KeyArgs(op, K)} : op \in O}
\* the calls with one field name, one number and one argument each
Calls(O, K, V) == CallsWith(O, K, V, {"f1"}, {1}, 1)

\* the store stays small: a call is made when the store holds at most n
\* keys after it, no collection has more than MaxCells cells and no score
\* is above MaxScore
Small(st, n) ==
  /\ Cardinality(st) <= n
  /\ \A e \in st :
       /\ Len(e.l) <= MaxCells
       /\ \A i \in 1..Len(e.l) : e.l[i].n <= MaxScore
Fits(c, n) ==
  LET ks == KeysOf(variant, c.op, c.keys) IN
  ks.ok =>
    Small(StoreExec(Command(variant, c.op, "none", 0, ks.v, c.val, c.args),
                    store).store, n)

\* the caller takes the outcome of the call that has finished; a call ends
\* with its outcome in done, and the next step is taken once the caller
\* has it
Take(track) ==
  /\ done # NoDone
  /\ done' = NoDone
  /\ prev' = Kind(done, track)
  /\ UNCHANGED <<variant, phase, sentinel, master, slave, connected, closedH,
                 nconn, store, task>>

\* concurrent use: all coroutines, one data operation
LifeOps == {"get"}
LifeKeys == {StrKey(<<"a">>)}
LifeCalls == Calls(LifeOps, LifeKeys, {"v1"})
Next ==
  \/ \E e \in ConnectSteps : ClientInit(e)
  \/ ClientCall(LifeCalls)
  \/ ClientClose
  \/ AsyncClientInit
  \/ \E t \in Tasks, e \in ConnectSteps : AsyncConnect(t, e)
  \/ \E t \in Tasks : AsyncCall(t, LifeCalls)
  \/ \E t \in Tasks, ok \in BOOLEAN : DiscoverMasterReturn(t, ok)
  \/ \E t \in Tasks, e \in ConnectSteps : DiscoverSlavesReturn(t, e)
  \/ \E t \in Tasks, fail \in BOOLEAN : CmdReturn(t, fail)
  \/ \E t \in Tasks : AsyncClose(t)
  \/ \E t \in Tasks : CloseMasterReturn(t)
  \/ \E t \in Tasks : CloseSlaveReturn(t)
  \/ Take(FALSE)
Spec == Init /\ [][Next]_vars

\* concurrent use with cancellation of the coroutines that connect
NextCancel ==
  \/ \E e \in ConnectSteps : ClientInit(e)
  \/ ClientCall(LifeCalls)
  \/ ClientClose
  \/ AsyncClientInit
  \/ \E t \in Tasks, e \in ConnectSteps : AsyncConnect(t, e)
  \/ \E t \in Tasks : AsyncCall(t, LifeCalls)
  \/ \E t \in Tasks, ok \in BOOLEAN : DiscoverMasterReturn(t, ok)
  \/ \E t \in Tasks, e \in ConnectSteps : DiscoverSlavesReturn(t, e)
  \/ \E t \in Tasks : CancelConnect(t)
  \/ \E t \in Tasks, fail \in BOOLEAN : CmdReturn(t, fail)
  \/ \E t \in Tasks : AsyncClose(t)
  \/ \E t \in Tasks : CloseMasterReturn(t)
  \/ \E t \in Tasks : CloseSlaveReturn(t)
  \/ Take(FALSE)
SpecCancel == Init /\ [][NextCancel]_vars

\* one caller that takes pipelines
NextPipe ==
  \/ \E e \in ConnectSteps : ClientInit(e)
  \/ ClientCall(LifeCalls)
  \/ ClientClose
  \/ AsyncClientInit
  \/ \E e \in ConnectSteps : AsyncConnect(1, e)
  \/ AsyncCall(1, LifeCalls)
  \/ \E ok \in BOOLEAN : DiscoverMasterReturn(1, ok)
  \/ \E e \in ConnectSteps : DiscoverSlavesReturn(1, e)
  \/ \E fail \in BOOLEAN : CmdReturn(1, fail)
  \/ AsyncClose(1)
  \/ CloseMasterReturn(1)
  \/ CloseSlaveReturn(1)
  \/ \E op \in PipelineOps("suspending") : AcquirePipeline(1, op)
  \/ \E path \in {"return", "execute", "commands"}, scoped \in BOOLEAN :
       LeavePipeline(1, path, scoped)
  \/ Take(FALSE)
SpecPipe == Init /\ [][NextPipe]_vars

\* sequential use: one caller, every operation, every raw key
SeqClientCalls ==
  {c \in Calls(ClientOps, RawKeys, {"v1"}) : Fits(c, MaxSeqStore)}
SeqAsyncCalls ==
  {c \in Calls(AsyncOps, RawKeys, {"v1"}) : Fits(c, MaxSeqStore)}
NextSeq ==
  \/ \E e \in ConnectSteps : ClientInit(e)
  \/ ClientCall(SeqClientCalls)
  \/ ClientClose
  \/ AsyncClientInit
  \/ \E e \in ConnectSteps : AsyncConnect(1, e)
  \/ AsyncCall(1, SeqAsyncCalls)
  \/ \E ok \in BOOLEAN : DiscoverMasterReturn(1, ok)
  \/ \E e \in ConnectSteps : DiscoverSlavesReturn(1, e)
  \/ \E fail \in BOOLEAN : CmdReturn(1, fail)
  \/ AsyncClose(1)
  \/ CloseMasterReturn(1)
  \/ CloseSlaveReturn(1)
  \/ Take(FALSE)
SpecSeq == Init /\ [][NextSeq]_vars

\* sequential use of the string commands, with several values
DataOps == {"set", "get", "delete", "delete_raw", "flushdb", "flushall"}
DataCalls == Calls(DataOps, RawKeys, Values)
NextData ==
  \/ \E e \in ConnectSteps : ClientInit(e)
  \/ ClientCall(DataCalls)
  \/ ClientClose
  \/ AsyncClientInit
  \/ \E e \in ConnectSteps : AsyncConnect(1, e)
  \/ AsyncCall(1, DataCalls)
  \/ \E ok \in BOOLEAN : DiscoverMasterReturn(1, ok)
  \/ \E e \in ConnectSteps : DiscoverSlavesReturn(1, e)
  \/ \E fail \in BOOLEAN : CmdReturn(1, fail)
  \/ AsyncClose(1)
  \/ CloseMasterReturn(1)
  \/ CloseSlaveReturn(1)
  \/ Take(TRUE)
SpecData == Init /\ [][NextData]_vars

\* a client of another tenant, constructed with the prefix q on the same
\* store, sets the key k to the value v: its set sends make_key(k) and
\* pickle.dumps(v)
OtherTenantSet(q, k, v) ==
  /\ done = NoDone
  /\ connected
  /\ q # AppPrefix
  /\ make_key_of(q, k).ok
  /\ store' = Put(store, StrEntry(make_key_of(q, k).v, dumps(v)))
  /\ Small(store', MaxStore)
  /\ UNCHANGED <<variant, phase, sentinel, master, slave, connected, closedH,
                 nconn, task, done, prev>>

\* two tenants on one store: the string commands of the client that is
\* followed, on names with and without the separator, and the writes of a
\* client with another prefix
TenantCalls ==
  {c \in Calls(DataOps,
               {StrKey(<<"a">>), StrKey(<<"a", ":", "b">>),
                StrKey(<<"q", ":", "a">>)}, {"v1"}) :
     connected /\ Fits(c, MaxStore)}
NextTenants ==
  \/ \E e \in ConnectSteps : ClientInit(e)
  \/ ClientCall(TenantCalls)
  \/ ClientClose
  \/ AsyncClientInit
  \/ \E e \in ConnectSteps : AsyncConnect(1, e)
  \/ AsyncCall(1, TenantCalls)
  \/ \E ok \in BOOLEAN : DiscoverMasterReturn(1, ok)
  \/ \E e \in ConnectSteps : DiscoverSlavesReturn(1, e)
  \/ \E fail \in BOOLEAN : CmdReturn(1, fail)
  \/ AsyncClose(1)
  \/ CloseMasterReturn(1)
  \/ CloseSlaveReturn(1)
  \/ \E q \in {<<"q">>, <<"p", ":", "a">>},
        k \in {StrKey(<<"a">>), StrKey(<<"b">>)} : OtherTenantSet(q, k, "w")
  \/ Take(TRUE)
SpecTenants == Init /\ [][NextTenants]_vars

\* sequential use of one data type on a connected client, with several
\* values: the strings of two keys
OneKey == {StrKey(<<"a">>)}
TwoKeys == {StrKey(<<"a">>), StrKey(<<"b">>)}
MultiOps == {"mset", "mget", "get", "incr", "delete"}
MultiCalls ==
  {c \in Calls(MultiOps, TwoKeys, Values) : connected /\ Fits(c, MaxStore)}
NextMulti ==
  \/ \E e \in ConnectSteps : ClientInit(e)
  \/ ClientCall(MultiCalls)
  \/ ClientClose
  \/ AsyncClientInit
  \/ \E e \in ConnectSteps : AsyncConnect(1, e)
  \/ AsyncCall(1, MultiCalls)
  \/ \E ok \in BOOLEAN : DiscoverMasterReturn(1, ok)
  \/ \E e \in ConnectSteps : DiscoverSlavesReturn(1, e)
  \/ \E fail \in BOOLEAN : CmdReturn(1, fail)
  \/ AsyncClose(1)
  \/ CloseMasterReturn(1)
  \/ CloseSlaveReturn(1)
  \/ Take(TRUE)
SpecMulti == Init /\ [][NextMulti]_vars

\* the calls of the operations O on the collection under one key
OneKeyCalls(O) ==
  {c \in CallsWith(O, OneKey, Values, Fields, Scores, MaxCells) :
     connected /\ Fits(c, MaxStore)}

\* lists and sets
ListOps ==
  {"rpush", "lrange", "lpop", "rpop", "sadd", "smembers", "sismember",
   "spop", "sscan_iter", "delete"}
ListCalls == OneKeyCalls(ListOps)
NextList ==
  \/ \E e \in ConnectSteps : ClientInit(e)
  \/ ClientCall(ListCalls)
  \/ ClientClose
  \/ AsyncClientInit
  \/ \E e \in ConnectSteps : AsyncConnect(1, e)
  \/ AsyncCall(1, ListCalls)
  \/ \E ok \in BOOLEAN : DiscoverMasterReturn(1, ok)
  \/ \E e \in ConnectSteps : DiscoverSlavesReturn(1, e)
  \/ \E fail \in BOOLEAN : CmdReturn(1, fail)
  \/ AsyncClose(1)
  \/ CloseMasterReturn(1)
  \/ CloseSlaveReturn(1)
  \/ Take(TRUE)
SpecList == Init /\ [][NextList]_vars

\* hashes
HashOps ==
  {"hset", "hget", "hgetall", "hvals", "hincrby", "hscan", "hscan_iter",
   "delete"}
HashCalls == OneKeyCalls(HashOps)
NextHash ==
  \/ \E e \in ConnectSteps : ClientInit(e)
  \/ ClientCall(HashCalls)
  \/ ClientClose
  \/ AsyncClientInit
  \/ \E e \in ConnectSteps : AsyncConnect(1, e)
  \/ AsyncCall(1, HashCalls)
  \/ \E ok \in BOOLEAN : DiscoverMasterReturn(1, ok)
  \/ \E e \in ConnectSteps : DiscoverSlavesReturn(1, e)
  \/ \E fail \in BOOLEAN : CmdReturn(1, fail)
  \/ AsyncClose(1)
  \/ CloseMasterReturn(1)
  \/ CloseSlaveReturn(1)
  \/ Take(TRUE)
SpecHash == Init /\ [][NextHash]_vars

\* sorted sets
ZSetOps ==
  {"zadd", "zincrby", "zrange", "zscore", "zrank", "zrem", "zscan_iter",
   "delete"}
ZSetCalls == OneKeyCalls(ZSetOps)
NextZSet ==
  \/ \E e \in ConnectSteps : ClientInit(e)
  \/ ClientCall(ZSetCalls)
  \/ ClientClose
  \/ AsyncClientInit
  \/ \E e \in ConnectSteps : AsyncConnect(1, e)
  \/ AsyncCall(1, ZSetCalls)
  \/ \E ok \in BOOLEAN : DiscoverMasterReturn(1, ok)
  \/ \E e \in ConnectSteps : DiscoverSlavesReturn(1, e)
  \/ \E fail \in BOOLEAN : CmdReturn(1, fail)
  \/ AsyncClose(1)
  \/ CloseMasterReturn(1)
  \/ CloseSlaveReturn(1)
  \/ Take(TRUE)
SpecZSet == Init /\ [][NextZSet]_vars

TypeOK ==
  /\ variant \in {"blocking", "suspending"}
  /\ phase \in {"new", "live", "failed"}
  /\ sentinel \in 0..MaxConnects
  /\ master \in 0..MaxConnects
  /\ slave \in 0..MaxConnects
  /\ connected \in BOOLEAN
  /\ closedH \subseteq {"master", "slave"}
  /\ nconn \in 0..MaxConnects
  /\ prev.kind \in {"none", "close", "connfail", "other"} \cup TrackedOps
  /\ \A t \in Tasks : task[t].pc \in
       {"idle", "discover_master", "discover_slaves", "cmd", "close_master",
        "close_slave"}

(***************************************************************************)
(* The claims                                                              *)
(***************************************************************************)
\* the calls that have reached the store: the one that has just finished
\* and those suspended in their store call
Dispatched ==
  {c \in {[op |-> done.op, keys |-> done.keys, cmd |-> done.cmd]}
         \cup {[op |-> task[t].op, keys |-> task[t].keys,
                cmd |-> task[t].cmd] : t \in Tasks} : c.cmd # NoCmd}

\* C1: in both clients, in every reachable state (any sequence and, for the
\* suspending client, any interleaving of connect, close and data
\* operations, failed ones included), connected true implies that the
\* primary handle and the replica handle are both set.
C1_ConnectedHasHandles == connected => master # 0 /\ slave # 0

\* C1's case: the suspending client is connected after a reconnect that
\* failed between master_for and slave_for, its two handles coming from
\* different connects
C1_Witness ==
  /\ variant = "suspending"
  /\ connected
  /\ master # slave
  /\ prev.kind = "other"

\* the mutations and the reads as the role table names them
TableMutations ==
  {"set", "mset", "delete", "incr", "decr", "append", "setrange", "lpush",
   "rpush", "lpop", "rpop", "lset", "lrem", "ltrim", "hset", "hsetnx",
   "hdel", "hincrby", "sadd", "srem", "smove", "spop", "zadd", "zrem",
   "zincrby", "zpopmin", "zpopmax", "zremrangebyrank", "zremrangebyscore",
   "expire", "expireat", "persist", "rename", "flushdb", "flushall"}
TableReads ==
  {"get", "mget", "getrange", "strlen", "exists", "keys", "scan",
   "scan_iter", "lrange", "llen", "lindex", "hget", "hgetall", "hkeys",
   "hvals", "hlen", "hexists", "hmget", "hscan", "hscan_iter", "smembers",
   "sismember", "scard", "sdiff", "sinter", "sunion", "srandmember", "sscan",
   "sscan_iter", "zrange", "zrevrange", "zrangebyscore", "zrevrangebyscore",
   "zrangebylex", "zcard", "zcount", "zrank", "zscore", "zscan",
   "zscan_iter", "ttl", "pttl", "type"}

\* C2: every operation has one role, whatever its arguments and the
\* variant: every command that reaches the store was sent on the handle of
\* the method's role, a mutation's on the primary handle, a read's on the
\* replica handle, and the two variants give every method they share the
\* same role.
C2_FixedRole ==
  /\ \A c \in Dispatched :
       /\ c.op \in TableMutations => c.cmd.role = "master"
       /\ c.op \in TableReads => c.cmd.role = "slave"
       /\ c.cmd.h = HandleOf(Conn, c.cmd.role)
       /\ c.cmd.h # 0
  /\ TableMutations \cup TableReads \subseteq ClientOps \cap AsyncOps
  /\ \A op \in ClientOps \cap AsyncOps : ClientRole(op) = AsyncRole(op)

\* C2's case: a pop, which returns data and mutates, has been sent with a
\* byte-string key
C2_Witness ==
  /\ done.op = "lpop"
  /\ done.keys = <<BytesKey(<<97>>)>>
  /\ done.cmd.role = "master"
  /\ done.cmd.h = master

\* text(raw) and the store key of a raw key, as the key rule states them
KeyText(k) ==
  IF k.t \in {"bytes", "memoryview"} THEN Utf8Decode(k.b) ELSE PyStr(k)
HasText(k) == k.t \in {"bytes", "memoryview"} => Utf8Ok(k.b)
RuleKey(k) == AppPrefix \o <<":">> \o KeyText(k)

\* C3 (as stated): in both variants every key-bearing parameter of every
\* operation reaches the store as prefix + ":" + text(raw).  Left aside
\* are delete_raw, whose names are meant to go out as they are, and keys,
\* scan and scan_iter, whose parameter is a pattern.
C3_KeysNamespaced ==
  \A c \in Dispatched :
    c.op \notin {"delete_raw", "keys"} \cup MatchOps =>
      /\ Len(c.cmd.keys) = Len(c.keys)
      /\ \A i \in 1..Len(c.keys) :
           HasText(c.keys[i]) => c.cmd.keys[i] = RuleKey(c.keys[i])

\* C3's failing case: the blocking get with the byte-string key b"a" has
\* asked the store for p:b'a'
C3_Witness ==
  /\ variant = "blocking"
  /\ done.op = "get"
  /\ done.keys = <<BytesKey(<<97>>)>>
  /\ done.cmd.keys = <<<<"p", ":", "b", "'", "a", "'">>>>

\* C4 (as stated): for every raw key k and value v, a get(k) that returns
\* right after a set(k, v) that returned gives v back, the set having
\* written and the get having read the store key prefix + ":" + text(k),
\* the get on the replica handle.
C4_SetThenGet ==
  (/\ prev.kind = "set"
   /\ done.op = "get"
   /\ done.keys = prev.keys
   /\ done.out = "return")
  => /\ done.ret = <<"value", prev.val>>
     /\ done.cmd.keys = <<RuleKey(prev.keys[1])>>
     /\ done.cmd.role = "slave"
     /\ StrEntry(RuleKey(prev.keys[1]), dumps(prev.val)) \in store

\* C4's failing case: on the blocking client set(b"a", v1) has stored v1
\* under p:a, and the get(b"a") that follows has returned None
C4_Witness ==
  /\ variant = "blocking"
  /\ prev.kind = "set"
  /\ prev.keys = <<BytesKey(<<97>>)>>
  /\ prev.val = "v1"
  /\ done.op = "get"
  /\ done.keys = prev.keys
  /\ done.out = "return"
  /\ done.ret = <<"None">>
  /\ StrEntry(<<"p", ":", "a">>, dumps("v1")) \in store

\* C5 (as stated): a connect that fails in discovery or while obtaining a
\* role handle raises ConnectionError and leaves connected false when it
\* returns, in both variants and whatever the state before the call.
C5_FailedConnectClearsFlag ==
  done.at \in {"discover_master", "discover_slaves", "master_for",
               "slave_for"}
  => /\ done.out = "ConnectionError"
     /\ ~done.post.connected
     /\ ~connected

\* C5's failing case: connect() called on a connected suspending client
\* has raised in discovery and connected is still true
C5_Witness ==
  /\ variant = "suspending"
  /\ done.op = "connect"
  /\ done.conn0
  /\ done.at = "discover_master"
  /\ done.out = "ConnectionError"
  /\ connected

\* C6 (as stated): on a suspending client that has never connected, an
\* operation whose implicit connect finds the monitor unreachable raises
\* SentinelError, sends no store command and leaves connected false.  The
\* monitor is first contacted by discover_master (the Sentinel object is
\* built without I/O).
C6_UnreachableMonitorIsSentinelError ==
  (/\ variant = "suspending"
   /\ done.op \in AsyncOps
   /\ slave = 0
   /\ done.at = "discover_master")
  => /\ done.att = 1
     /\ done.out = "SentinelError"
     /\ done.cmd = NoCmd
     /\ ~connected

\* C6's failing case: the first call of a new suspending client, get, has
\* raised ConnectionError because discover_master raised
C6_Witness ==
  /\ variant = "suspending"
  /\ prev = NoPrev
  /\ done.op = "get"
  /\ done.at = "discover_master"
  /\ done.out = "ConnectionError"
  /\ done.cmd = NoCmd
  /\ ~connected

\* C7: the blocking client connects once, in its constructor, and no later
\* call looks at connected or connects again (a data method is sent on a
\* closed client as on a connected one); the constructor of the suspending
\* client connects nothing, and each of its data methods runs connect, once
\* and before its store command, exactly when it finds connected false.
C7_ConnectDiscipline ==
  /\ variant = "blocking" =>
       /\ nconn = (IF phase = "new" THEN 0 ELSE 1)
       /\ done.op \in ClientOps \cup {"close"} => done.att = 0
       /\ done.op \in ClientOps /\ done.out \in {"return", "RedisError"}
            => done.cmd # NoCmd
  /\ variant = "suspending" =>
       /\ phase = "new" \/ (prev = NoPrev /\ done = NoDone
                            /\ \A t \in Tasks : task[t].pc = "idle")
            => nconn = 0 /\ sentinel = 0
       /\ done.op \in AsyncOps => (done.att = 1 <=> ~done.conn0)
       /\ done.op \in AsyncOps /\ done.cmd # NoCmd /\ done.att = 1
            => done.at = "none" /\ done.post.connected
       /\ \A t \in Tasks :
            task[t].op \in AsyncOps =>
              /\ task[t].att = 1 <=> ~task[t].conn0
              /\ task[t].pc = "cmd" /\ task[t].att = 1 => connected

\* C7's case: the first data method after close() has found connected
\* false, has connected again and has had its command answered
C7_Witness ==
  /\ variant = "suspending"
  /\ prev.kind = "close"
  /\ done.op = "get"
  /\ ~done.conn0
  /\ done.att = 1
  /\ done.cmd # NoCmd
  /\ done.out = "return"

\* the keys of a call can be built (no byte string that is not UTF-8)
KeysBuilt(ks) == \A i \in 1..Len(ks) : HasText(ks[i])

C9_NullHandleIsInitError ==
  done.null0 /\ done.at # "sentinel" =>
    /\ done.out = "InitError"
    /\ done.att = 0
    /\ done.at = "none"
    /\ done.cmd = NoCmd

\* C9's failing case: get, called on a new suspending client (no replica
\* handle), has run discovery and has returned what the store answered
C9_Witness ==
  /\ variant = "suspending"
  /\ done.null0
  /\ done.op = "get"
  /\ done.att = 1
  /\ done.cmd # NoCmd
  /\ done.out = "return"

\* the state close() leaves: no monitor handle, connected false, close()
\* called on every role handle that is set
Released(cs) ==
  /\ cs.sentinel = 0
  /\ ~cs.connected
  /\ \A r \in {"master", "slave"} : HandleOf(cs, r) # 0 => r \in cs.closed
\* a close() that has ended has returned, and has left that state
CloseLeaves ==
  done.op = "close" =>
    /\ done.out = "return"
    /\ Released(done.post)
    /\ done.post = Conn
\* a step of a close() called right after a close() changes no field
SecondCloseStep ==
  prev.kind = "close" /\ "close" \in {task'[1].op, done'.op}
    => Conn' = Conn /\ done'.out \in {"none", "return"}

\* C10: close() returns (it raises nothing) with both role handles
\* released, the monitor handle dropped and connected false, on a client
\* that has connected as on one that never has; and it is idempotent: no
\* step of a close() that follows a close() changes the client state.
C10_CloseIdempotent == []CloseLeaves /\ [][SecondCloseStep]_vars

\* C10's case: a second close() has returned on a client that had
\* connected
C10_Witness ==
  /\ prev.kind = "close"
  /\ done.op = "close"
  /\ done.out = "return"
  /\ done.post.master # 0
  /\ done.post.slave # 0

(***************************************************************************)
(* Keys and patterns, codec round trips, error kinds                       *)
(***************************************************************************)
\* the methods that hand the raw key itself to make_key
MakeKeyOps(v) == IF v = "blocking" THEN ClientMakeKeyOps ELSE AsyncMakeKeyOps
\* a text starts with the prefix and a colon
Namespaced(key) ==
  /\ Len(key) > Len(AppPrefix)
  /\ SubSeq(key, 1, Len(AppPrefix) + 1) = AppPrefix \o <<":">>

\* C11 (as stated): make_key is total, its result starts with the prefix
\* and a colon, and raw keys whose texts differ get different results: a
\* call that hands its raw key to make_key never ends with an error of
\* make_key, and the key of the command it sends is the namespaced text.
C11_MakeKeyTotal ==
  /\ \A k1, k2 \in RawKeys :
       HasText(k1) /\ HasText(k2) /\ KeyText(k1) # KeyText(k2)
         => make_key(k1) # make_key(k2)
  /\ done.op \in MakeKeyOps(variant) /\ Len(done.keys) = 1 =>
       /\ done.out # "UnicodeDecodeError"
       /\ done.cmd # NoCmd =>
            /\ done.cmd.keys = <<RuleKey(done.keys[1])>>
            /\ Namespaced(done.cmd.keys[1])

\* C11's case: a get of the suspending client with the key b"\xff" has
\* connected and has ended in make_key
C11_Witness ==
  /\ variant = "suspending"
  /\ done.op = "get"
  /\ done.keys = <<BytesKey(<<255>>)>>
  /\ done.post.connected
  /\ done.out = "UnicodeDecodeError"
  /\ done.cmd = NoCmd

\* the methods that take a glob pattern
PatternOps == {"keys"} \cup MatchOps

\* C12 (as stated): in both variants keys(pattern), scan(match=...) and
\* scan_iter(match=...) send the store only the pattern transformed like a
\* key, prefix + ":" + text(pattern).
C12_PatternsNamespaced ==
  \A c \in Dispatched :
    c.op \in PatternOps /\ Len(c.keys) = 1 /\ HasText(c.keys[1]) =>
      /\ c.cmd.keys = <<RuleKey(c.keys[1])>>
      /\ Namespaced(c.cmd.keys[1])

\* C12's case: scan(match="a") of the blocking client has been answered
\* for the pattern "a" as it was given
C12_Witness ==
  /\ variant = "blocking"
  /\ done.op = "scan"
  /\ done.keys = <<StrKey(<<"a">>)>>
  /\ done.cmd.method = "scan"
  /\ done.cmd.keys = <<(<<"a">>)>>
  /\ done.out = "return"

\* the value a mapping, given as its keys and values in order, has for k
MappingAt(ks, as, k) ==
  as[CHOOSE i \in 1..Len(ks) :
       ks[i] = k /\ \A j \in (i + 1)..Len(ks) : ks[j] # k].v
\* a decoded value and a null as the elements of a result
Value(v) == ResCell("", "", <<"value", v>>, 0)
NoValue == ResCell("", "", Nil, 0)
\* a method ended because the call on the handle raised
StoreRaised == done.out = "RedisError"

\* C13: after mset(m) has succeeded, mget(ks) returns a list as long as ks
\* and in its order, with m[ks[i]] decoded where ks[i] is a key of m and
\* None where the store has no such key; when every key of ks is a key of
\* m or missing, only the store call can make it fail.
C13_MSetThenMGet ==
  prev.kind = "mset" /\ done.op = "mget" =>
    /\ (\A i \in 1..Len(done.keys) :
          \/ InKeys(done.keys[i], prev.keys)
          \/ ~Holds(store, RuleKey(done.keys[i])))
         => done.out = "return" \/ StoreRaised
    /\ done.out = "return" =>
         /\ done.res.shape = "list"
         /\ Len(done.res.l) = Len(done.keys)
         /\ \A i \in 1..Len(done.keys) :
              IF InKeys(done.keys[i], prev.keys)
              THEN done.res.l[i]
                     = Value(MappingAt(prev.keys, prev.args, done.keys[i]))
              ELSE ~Holds(store, RuleKey(done.keys[i]))
                     => done.res.l[i] = NoValue

\* C13's case: after mset({"a": "v2"}), mget(["a", "b"]) has returned
\* ["v2", None]
C13_Witness ==
  /\ prev.kind = "mset"
  /\ prev.keys = <<StrKey(<<"a">>)>>
  /\ done.op = "mget"
  /\ done.keys = <<StrKey(<<"a">>), StrKey(<<"b">>)>>
  /\ done.out = "return"
  /\ done.res.l = <<Value("v2"), NoValue>>

\* C14 (as stated): zadd hands the store each member opaque-encoded and
\* each score as a native number, in both variants (the member zscore,
\* zrank, zrem and zincrby then address with the encoded member).
C14_ZAddEncodesMember ==
  done.op = "zadd" /\ done.cmd # NoCmd =>
    /\ Len(done.cmd.items) = Len(done.args)
    /\ \A i \in 1..Len(done.args) :
         /\ done.cmd.items[i].b = dumps(done.args[i].v)
         /\ done.cmd.items[i].s = num(done.args[i].n)
         /\ done.cmd.items[i].b = ItemOf(variant, "zscore", done.args[i]).b

\* C14's case: zadd(k, {"v1": 1}) has sent the member "v1" as it is with
\* the score pickled, the store has refused it and holds no sorted set
C14_Witness ==
  /\ done.op = "zadd"
  /\ done.args = <<Arg("", "v1", 1)>>
  /\ done.cmd.items = <<[f |-> "", b |-> native("v1"), s |-> dumps(1)]>>
  /\ done.out = "RedisError"
  /\ store = {}

\* the value a mapping, given as field and value arguments, has for f
HasField(as, f) == \E i \in 1..Len(as) : as[i].f = f
FieldAt(as, f) == as[CHOOSE i \in 1..Len(as) : as[i].f = f].v
\* the result of hgetall or hget is what hset(mapping=m) has just written
ReadsMapping(m) ==
  /\ done.op = "hgetall" =>
       /\ done.res.shape = "dict"
       /\ \A i \in 1..Len(m) :
            \E j \in 1..Len(done.res.l) :
              done.res.l[j] = ResCell(m[i].f, "text", <<"value", m[i].v>>, 0)
       /\ prev.fresh => Len(done.res.l) = Len(m)
  /\ done.op = "hget" /\ HasField(m, done.args[1].f) =>
       done.res = [shape |-> "one",
                   l |-> <<Value(FieldAt(m, done.args[1].f))>>]

\* C15 (as stated): in both variants hset sends the field names as they
\* are and the values encoded, and after hset(k, mapping=m) has succeeded
\* hgetall(k) returns m with the field names as text and hget(k, f)
\* returns m[f].
C15_HashRoundTrip ==
  /\ done.op = "hset" /\ done.cmd # NoCmd =>
       \A i \in 1..Len(done.args) :
         /\ done.cmd.items[i].f = done.args[i].f
         /\ done.cmd.items[i].b = dumps(done.args[i].v)
  /\ prev.kind = "hset" /\ done.out = "return" => ReadsMapping(prev.args)

\* C15's case: after hset(k, mapping={"f1": "v1"}) on a new hash, hgetall
\* of the suspending client has returned the bytes of the reply
C15_Witness ==
  /\ variant = "suspending"
  /\ prev.kind = "hset"
  /\ prev.fresh
  /\ prev.args = <<Arg("f1", "v1", 0)>>
  /\ done.op = "hgetall"
  /\ done.out = "return"
  /\ done.res.l = <<ResCell("f1", "bytes", native("v1"), 0)>>

\* the values given to a write, in order and as a set of result elements
ValuesOf(as) == [i \in 1..Len(as) |-> Value(as[i].v)]
ValueSet(as) == {Value(as[i].v) : i \in 1..Len(as)}
\* the reads after rpush(k, v1, ..., vn) on an empty list
ReadsList(as) ==
  /\ done.op = "lrange" =>
       done.res = [shape |-> "list", l |-> ValuesOf(as)]
  /\ done.op = "lpop" =>
       done.res = [shape |-> "one", l |-> <<Value(as[1].v)>>]
\* the reads after sadd(k, v1, ..., vn) on a new set
ReadsSet(as) ==
  /\ done.op = "smembers" =>
       /\ done.res.shape = "set"
       /\ {done.res.l[i] : i \in 1..Len(done.res.l)} = ValueSet(as)
  /\ done.op = "sismember" /\ Value(done.args[1].v) \in ValueSet(as) =>
       done.res = [shape |-> "int", l |-> <<ResCell("", "", NoBytes, 1)>>]
  /\ done.op = "spop" =>
       /\ done.res.shape = "one"
       /\ done.res.l[1] \in ValueSet(as)

\* C16 (as stated): in both variants the list and set writes encode every
\* element and the reads decode every element: after rpush(k, v1, ..., vn)
\* on an empty list lrange(k, 0, -1) returns [v1, ..., vn] and lpop(k)
\* returns v1; after sadd(k, v1, ..., vn) smembers(k) returns the set of
\* the vi, sismember(k, vi) is true and spop(k) returns one of the vi.
C16_ListSetRoundTrip ==
  /\ done.op \in {"rpush", "sadd", "sismember"} /\ done.cmd # NoCmd =>
       \A i \in 1..Len(done.args) :
         done.cmd.items[i].b = dumps(done.args[i].v)
  /\ prev.fresh /\ done.out = "return" =>
       /\ prev.kind = "rpush" => ReadsList(prev.args)
       /\ prev.kind = "sadd" => ReadsSet(prev.args)

\* C16's case: after sadd(k, "v1", "v2") on a new set, smembers of the
\* suspending client has returned the bytes of the reply
C16_Witness ==
  /\ variant = "suspending"
  /\ prev.kind = "sadd"
  /\ prev.fresh
  /\ prev.args = <<Arg("", "v1", 0), Arg("", "v2", 0)>>
  /\ done.op = "smembers"
  /\ done.out = "return"
  /\ done.res.l = <<ResCell("", "", native("v1"), 0),
                    ResCell("", "", native("v2"), 0)>>

\* a data method both clients offer ends on the connected blocking client
BlockingCallStep ==
  /\ variant = "blocking"
  /\ connected
  /\ done = NoDone
  /\ done'.op \in ClientOps \cap AsyncOps
\* the call has sent what AsyncClient sends for the same arguments, and has
\* ended as AsyncClient ends on the same reply (or failure) of the store
AgreesWithSuspending ==
  LET p == Prepare("suspending", done'.op, done'.keys, done'.val,
                   done'.args, Conn) IN
  IF p.out # "none"
  THEN done'.cmd = NoCmd /\ done'.out = p.out
  ELSE /\ done'.cmd = p.cmd
       /\ \E fail \in BOOLEAN :
            LET c == Complete("suspending", done'.op, p.cmd, store, fail) IN
            /\ done'.out = c.out
            /\ done'.res = c.res
            /\ done'.ret = c.ret
            /\ store' = c.store

\* C17 (as stated): for every operation both clients offer, with the same
\* arguments, the same connected state and the same store replies, the
\* blocking client sends the command the suspending client sends (role,
\* keys, encoded values) and returns the same result or raises the same
\* error.
C17_SameAsSuspending == [][BlockingCallStep => AgreesWithSuspending]_vars

\* C17's case: hset(k, mapping={"f1": "v1"}) of the blocking client has
\* sent the pickled value, and AsyncClient.hset sends the value as it is
C17_Witness ==
  /\ variant = "blocking"
  /\ done.op = "hset"
  /\ done.conn0
  /\ done.keys = <<StrKey(<<"a">>)>>
  /\ done.out = "return"
  /\ done.cmd.items = <<[f |-> "f1", b |-> dumps("v1"), s |-> <<>>]>>
  /\ Prepare("suspending", "hset", done.keys, done.val, done.args,
             done.post).cmd.items
       = <<[f |-> "f1", b |-> native("v1"), s |-> <<>>]>>

\* a call in progress or just ended has made at most one connect attempt,
\* the suspending client only one that found connected false; a call whose
\* connect failed has sent no command and has raised
OneAttempt ==
  /\ done.att <= 1
  /\ \A t \in Tasks : task[t].att <= 1
  /\ variant = "blocking" /\ done.op \in ClientOps => done.att = 0
  /\ done.att = 1 /\ done.op \in AsyncOps => ~done.conn0
  /\ done.at # "none" =>
       /\ done.cmd = NoCmd
       /\ done.out \notin {"none", "return"}
\* a connect attempt is begun by a call that starts, never by a call under
\* way: a failed connect or command is not tried again
NoSecondAttempt ==
  nconn' # nconn =>
    /\ nconn' = nconn + 1
    /\ done = NoDone
    /\ \A t \in Tasks : task[t].pc # "idle" => task'[t] = task[t]
\* a call whose connect has failed ends in that step, with nothing sent
FailedConnectEnds ==
  \A t \in Tasks :
    /\ task[t].pc \in {"discover_master", "discover_slaves"}
    /\ task'[t] # task[t]
    /\ done'.at # "none"
    => /\ task'[t].pc = "idle"
       /\ done'.cmd = NoCmd
       /\ store' = store
\* the store answers (or fails) a command once, and the call ends with
\* that answer; the store changes in no other step
OneDispatch ==
  /\ \A t \in Tasks :
       task[t].pc = "cmd" /\ task'[t] # task[t] =>
         /\ task'[t].pc = "idle"
         /\ done'.cmd = task[t].cmd
         /\ done'.out # "none"
         /\ done'.out # "return" => store' = store
  /\ store' # store => done = NoDone /\ done'.cmd # NoCmd

\* C18: no operation retries.  A call makes at most one connect attempt
\* (the suspending client's only when connected is false) and sends its
\* command at most once; when the connect or the command fails the call
\* ends with the error in that step, and after a failed connect the
\* command is never sent.
C18_NoRetry ==
  /\ []OneAttempt
  /\ [][NoSecondAttempt /\ FailedConnectEnds /\ OneDispatch]_vars

\* C18's case: a get whose connect raised at discover_slaves has ended
\* after its one attempt with nothing sent
C18_Witness ==
  /\ variant = "suspending"
  /\ done.op = "get"
  /\ done.at = "discover_slaves"
  /\ done.att = 1
  /\ nconn = 1
  /\ done.cmd = NoCmd
  /\ done.out = "ConnectionError"

\* the outcomes of a call that are a result or one of the four error kinds
\* (UnpicklingError is the codec's decode failure); an exception of the
\* store call itself is left aside
FourKinds ==
  {"none", "return", "SentinelError", "ConnectionError", "InitError",
   "UnpicklingError"}
\* bytes of the store, not null, that pickle.loads rejects
Undecodable(b) == b \notin {NoBytes, Nil} /\ b[1] # "value" /\ ~loads(b).ok

\* C19 (as stated): every operation returns a result or raises one of
\* SentinelError, ConnectionError, InitError, DecodeError, and a read whose
\* reply holds bytes the codec cannot decode raises DecodeError and returns
\* no value in their place.
C19_FourErrorKinds ==
  /\ done.out \in FourKinds \cup {"RedisError"}
  /\ done.out = "return" /\ done.op \in TableReads =>
       \A i \in 1..Len(done.res.l) : ~Undecodable(done.res.l[i].b)

\* C19's case: hget of the suspending client, on a field hincrby has
\* written, has returned the bytes of the counter
C19_Witness ==
  /\ variant = "suspending"
  /\ done.op = "hget"
  /\ done.out = "return"
  /\ done.res = [shape |-> "one", l |-> <<ResCell("", "", IntText, 0)>>]

\* C20 (as stated): a batch read whose reply holds an element that cannot
\* be decoded fails as a whole: the caller receives no decoded element of
\* that reply.
C20_BatchAllOrNothing ==
  done.out = "UnpicklingError" => done.res.l = <<>>

\* C20's case: hscan_iter of the blocking client, on a hash whose second
\* field holds a counter, has yielded the first pair and has then raised
C20_Witness ==
  /\ variant = "blocking"
  /\ done.op = "hscan_iter"
  /\ done.out = "UnpicklingError"
  /\ done.res.l = <<ResCell("f1", "text", <<"value", "v1">>, 0)>>

(***************************************************************************)
(* Reply shapes, cancellation, pipelines, frames, tenants                  *)
(***************************************************************************)
\* a pop has been answered by the store: the step that ends it, with the
\* reply the store gives to its command
PopAnswered ==
  /\ done = NoDone
  /\ done'.op \in CountArgOps
  /\ done'.cmd # NoCmd
  /\ done'.out # "RedisError"
\* a reply as the claim wants it handed on: every element decoded, in order
DecodedAll(reply, rep) ==
  [shape |-> reply[1], l |-> [i \in 1..Len(rep) |-> Value(loads(rep[i].b).v)]]
\* the result follows the shape of the reply
FollowsReply ==
  LET x == StoreExec(done'.cmd, store) IN
  CASE x.reply = <<"None">> ->
         done'.out = "return" /\ done'.res = NoRes
    [] x.reply[1] \in {"list", "one"} ->
         IF \A i \in 1..Len(x.rep) : loads(x.rep[i].b).ok
         THEN done'.out = "return" /\ done'.res = DecodedAll(x.reply, x.rep)
         ELSE done'.out = "UnpicklingError"
    [] OTHER -> FALSE

\* C21 (as stated): in both variants lpop, rpop and spop shape their
\* result after the store's reply, with or without a count: None for a
\* null reply, the list of the decoded elements in order for a list reply,
\* the decoded value for a single byte string.
C21_PopFollowsReply == [][PopAnswered => FollowsReply]_vars

\* C21's case: spop(k, 2) of the suspending client has returned the list
\* reply with its two elements as the store sent them
C21_Witness ==
  /\ variant = "suspending"
  /\ done.op = "spop"
  /\ done.args = <<Arg("", "none", 2)>>
  /\ done.out = "return"
  /\ done.res = [shape |-> "list",
                 l |-> <<ResCell("", "", native("v1"), 0),
                         ResCell("", "", native("v2"), 0)>>]

\* a connect() of coroutine t, explicit or inside a data method, is
\* cancelled in this step
Cancelled(t) ==
  /\ done = NoDone
  /\ task[t].pc \in {"discover_master", "discover_slaves"}
  /\ done'.out = "CancelledError"
PipelineLeft == done.at = "pipeline"
\* C23 (as stated): every pipeline or transaction object taken from the
\* primary or the replica handle (write_pipeline, read_pipeline,
\* write_pipeline_ctx, read_pipeline_ctx, transaction) is released on every
\* exit path of its use, including when the caller's commands or the batch
\* submission raise.
C23_PipelinesReleased == PipelineLeft => done.ret = <<"released">>
C23_Witness ==
  /\ PipelineLeft
  /\ done.op = "write_pipeline_ctx"
  /\ done.out = "RedisError"
  /\ done.cmd.method = "pipeline" /\ done.cmd.h = master
  /\ done.ret = <<"released">>

\* a step of a data operation that found connected true: its call on the
\* role handle is started, or the operation ends
ConnectedDataStep ==
  \/ /\ done = NoDone
     /\ done' # NoDone
     /\ done'.op \notin {"connect", "close", "__init__"}
     /\ done'.conn0
  \/ \E t \in Tasks :
       /\ task[t].pc = "idle"
       /\ task'[t].pc = "cmd"
       /\ task'[t].conn0
\* a step of a connect that may set the role handles: the constructor of
\* the blocking client, an explicit connect(), or the connect of an
\* operation that found connected false
ConnectStep ==
  \/ phase = "new"
  \/ \E t \in Tasks :
       /\ task[t].pc = "discover_slaves"
       /\ task[t].op = "connect" \/ ~task[t].conn0
\* C24: while connected is true no data operation changes the monitor
\* handle, the primary handle, the replica handle or the connected flag,
\* whether its store command succeeds or fails; the role handles are
\* replaced only by an explicit connect or by the implicit connect of an
\* operation that finds connected false.
C24_DataOpsKeepTopology ==
  [][/\ ConnectedDataStep =>
          UNCHANGED <<sentinel, master, slave, connected, closedH, variant,
                      phase>>
     /\ (master' # master \/ slave' # slave) => ConnectStep]_vars
C24_Witness ==
  /\ variant = "suspending"
  /\ done.op = "set" /\ done.out = "RedisError"
  /\ done.conn0 /\ connected
  /\ done.cmd.h = master /\ master = 2 /\ slave = 2

\* the hash under the key of the call that has finished, as the store holds
\* it (a scan changes nothing)
ScannedHash == CellsAt(store, RuleKey(done.keys[1]))
\* a scan of a hash on a connected client has ended, and not by an
\* exception of the store call
HashScanned ==
  /\ done.op \in {"hscan", "hscan_iter"}
  /\ done.conn0
  /\ done.out # "RedisError"
\* the entries handed on are those of the hash, the values decoded
EntriesDecoded ==
  /\ Len(done.res.l) = Len(ScannedHash)
  /\ \A i \in 1..Len(ScannedHash) :
       /\ done.res.l[i].f = ScannedHash[i].f
       /\ done.res.l[i].b = <<"value", loads(ScannedHash[i].b).v>>
\* C25 (as stated): in both variants the *_iter scans return a sequence
\* that yields every entry of the pass decoded, and scan, sscan, hscan and
\* zscan return the pair (cursor, page) with the cursor as the store sent
\* it and the page entries decoded; here for the hash: hscan_iter and hscan
\* return, or fail to decode, and what they return is every entry with its
\* value decoded.
C25_ScansDecoded ==
  HashScanned =>
    /\ done.out \in {"return", "UnpicklingError"}
    /\ done.out = "return" =>
         /\ EntriesDecoded
         /\ done.op = "hscan" => done.ret = <<"page", 0>>
C25_Witness ==
  /\ variant = "blocking"
  /\ done.op = "hscan"
  /\ done.out = "return"
  /\ done.ret = <<"page", 0>>
  /\ done.res = [shape |-> "page",
                 l |-> <<ResCell("f1", "text", <<"value", "v1">>, 0),
                         ResCell("f2", "text", <<"value", "v2">>, 0)>>]

\* the coroutines suspended in the connect of a data operation
Connecting ==
  {t \in Tasks : /\ task[t].pc \in {"discover_master", "discover_slaves"}
                 /\ task[t].op # "connect"}
\* C26 (as stated): in the suspending variant, when several operations are
\* started concurrently on a client whose connected flag is false,
\* discovery is run at most once: at most one connect() is in progress at
\* a time.
C26_OneDiscovery == Cardinality(Connecting) <= 1
\* C26's case: two get calls were started while connected was false; the
\* first awaits discover_slaves on a monitor handle that the second, which
\* awaits discover_master, has replaced by its own
C26_Witness ==
  /\ variant = "suspending"
  /\ task[1].op = "get" /\ task[1].pc = "discover_slaves" /\ task[1].cn = 1
  /\ task[2].op = "get" /\ task[2].pc = "discover_master" /\ task[2].cn = 2
  /\ ~connected
  /\ sentinel = 2

\* a role handle that is set stays set
HandlesStay ==
  /\ master # 0 => master' # 0
  /\ slave # 0 => slave' # 0
\* with both role handles set (the blocking constructor has returned, a
\* connect() of the suspending client has succeeded) no call ends in
\* InitError
NoInitError ==
  (variant = "blocking" /\ phase = "live") \/ (master # 0 /\ slave # 0)
    => done.out # "InitError"
\* C27: in both variants a role handle, once set by a successful connect,
\* is never set back to null by any operation, close() included; so on a
\* blocking client whose constructor returned and on a suspending client
\* after its first successful connect no operation raises InitError.
C27_HandlesNeverNull == []NoInitError /\ [][HandlesStay]_vars
\* C27's case: the suspending client was connected and closed, and the
\* connect of the next get has failed: both role handles are still those
\* of the first connect
C27_Witness ==
  /\ variant = "suspending"
  /\ prev.kind = "close"
  /\ done.op = "get"
  /\ done.out = "ConnectionError"
  /\ ~connected
  /\ master = 1 /\ slave = 1
  /\ closedH = {"master", "slave"}

\* close() has been called on the blocking client
BlockingClosed == variant = "blocking" /\ closedH # {}
\* a data method called on the blocking client after close()
CalledAfterClose ==
  /\ BlockingClosed
  /\ done.op \notin {"none", "close", "__init__"}
\* the blocking client after close(): connected is false, and a data method
\* makes no connect attempt and calls the released handle of its role
StaysClosed ==
  /\ BlockingClosed => ~connected /\ sentinel = 0
  /\ CalledAfterClose =>
       /\ ~done.conn0
       /\ done.att = 0 /\ done.at = "none"
       /\ done.out \notin {"InitError", "ConnectionError", "SentinelError"}
       /\ KeysBuilt(done.keys) =>
            /\ done.cmd # NoCmd
            /\ done.cmd.h = HandleOf(Conn, done.cmd.role)
            /\ done.cmd.role \in closedH
\* no step after close() runs discovery or changes a handle
NoReconnect ==
  BlockingClosed =>
    /\ BlockingClosed'
    /\ nconn' = nconn
    /\ master' = master /\ slave' = slave
\* C28: in the blocking variant, once close() has been called, connected
\* is false in every later state: no operation runs discovery or sets
\* connected again, and every later data operation is still dispatched to
\* the role handle that close() released instead of raising InitError or
\* reconnecting.
C28_ClosedForGood == []StaysClosed /\ [][NoReconnect]_vars
\* C28's case: a get after close() has been answered through the released
\* replica handle
C28_Witness ==
  /\ variant = "blocking"
  /\ prev.kind = "close"
  /\ done.op = "get"
  /\ done.out = "return"
  /\ done.cmd.h = slave /\ slave = 1
  /\ "slave" \in closedH
  /\ ~connected

\* the value the other tenant's client writes, as get returns it
OtherValue == <<"value", "w">>
\* C29 (as stated): tenant prefixes isolate key spaces: for two clients
\* whose prefixes differ, make_key of the one never equals make_key of the
\* other, whatever the raw keys (with or without the separator in them),
\* so no operation of one tenant reads a store key of another: a get never
\* returns a value that only the other tenant has written.
C29_TenantsIsolated ==
  done.op = "get" /\ done.out = "return" => done.ret # OtherValue
\* C29's case: the other tenant, with prefix q, holds a value under its
\* key a, and a get of a by the client that is followed has found nothing
C29_Witness ==
  /\ done.op = "get"
  /\ done.keys = <<StrKey(<<"a">>)>>
  /\ done.out = "return"
  /\ done.ret = <<"None">>
  /\ Holds(store, <<"q", ":", "a">>)
  /\ BytesAt(store, <<"q", ":", "a">>) = dumps("w")

\* a store key that starts with the prefix of the client that is followed
\* and the separator
OwnKey(k) ==
  /\ Len(k) > Len(AppPrefix)
  /\ SubSeq(k, 1, Len(AppPrefix) + 1) = AppPrefix \o <<":">>
\* a call of the client that is followed ends in this step (a write of the
\* other tenant's client is no call of it)
OwnCallEnds == done = NoDone /\ done' # NoDone
\* C30 (as stated): every mutating operation of a client changes only
\* store keys that start with its prefix and ":": whatever the client with
\* prefix P calls (delete_raw, flushdb and flushall included), every store
\* key that does not start with P + ":" keeps its value.
C30_OnlyOwnKeysChange ==
  [][OwnCallEnds =>
       \A e \in store : ~OwnKey(e.k) => e \in store']_vars
\* C30's case: a delete of a has removed the client's own key and has left
\* the other tenant's key a as it was
C30_Witness ==
  /\ done.op = "delete"
  /\ done.keys = <<StrKey(<<"a">>)>>
  /\ done.out = "return"
  /\ ~done.fresh
  /\ store = {StrEntry(<<"q", ":", "a">>, dumps("w"))}
====
